---- MODULE Spec2Model ----
(***************************************************************************)
(* Model of the Monarch Money coordinator                                  *)
(* (custom_components/monarchmoney/update_coordinator.py): the setup       *)
(* sequence, the re-authentication routine guarded by the auth lock and    *)
(* the 60 second window, and the poll cycle _async_update_data.            *)
(*                                                                         *)
(* A step of the model is what the event loop runs between two suspension  *)
(* points of a coroutine: the awaited remote calls, the executor jobs      *)
(* (load/save session) and the wait for a held auth lock.  Acquiring a     *)
(* free asyncio.Lock does not suspend, so the lock acquisition, the rate   *)
(* check and the issue of the login call are one step.                     *)
(***************************************************************************)
EXTENDS Integers, Sequences, FiniteSets, TLC

\* the window of line 128
RateLimitWindow == 60

\* ------------------------------------------------------------------ bounds
StartTime == 100
MaxTicks == 4
MaxTicksOverlap == 2
\* the clock is observed every half window
TickSteps == {RateLimitWindow \div 2}

\* ------------------------------------------------------- program constants
VALUES_SCAN_INTERVAL == <<60, 120, 600, 1800, 3600, 21600, 86400>>
VALUES_TIMEOUT == <<10, 15, 30, 45, 60>>
\* mutant: the default is the sixth value of the list
DEFAULT_SCAN_INTERVAL_M == VALUES_SCAN_INTERVAL[6]
DEFAULT_SCAN_INTERVAL == VALUES_SCAN_INTERVAL[5]
DEFAULT_TIMEOUT == VALUES_TIMEOUT[3]

Range(f) == {f[i] : i \in DOMAIN f}

\* the configured timeouts explored: the default and the largest
TimeoutOptions == {DEFAULT_TIMEOUT, VALUES_TIMEOUT[Len(VALUES_TIMEOUT)]}

\* dict.get(key, default)
Get(d, key, default) == IF key \in DOMAIN d THEN d[key] ELSE default

\* config_entry.options: empty until the options flow stored a choice; the
\* stored choices explored are the largest values of the two lists
NoOptions == [k \in {} |-> 0]
OptionSets ==
    {NoOptions,
     [scan_interval |-> VALUES_SCAN_INTERVAL[Len(VALUES_SCAN_INTERVAL)],
      timeout |-> VALUES_TIMEOUT[Len(VALUES_TIMEOUT)]]}

\* The coroutines that can run on one coordinator: "A" runs async_setup
\* (including the first refresh) and later refreshes; "B" is a second
\* refresh (a requested refresh overlapping the scheduled one).
Tasks == {"A", "B"}
SetupTask == "A"

Free == "free"
NoDeadline == -1
NotStarted == -1

\* ----------------------------------------------------------- text helpers
\* A message is the sequence of its characters.
Contains(hay, needle) ==
    \E i \in 1..(Len(hay) - Len(needle) + 1) :
        SubSeq(hay, i, i + Len(needle) - 1) = needle

LowerChar(c) ==
    CASE c = "A" -> "a" [] c = "U" -> "u" [] c = "N" -> "n" [] c = "T" -> "t"
      [] c = "H" -> "h" [] c = "O" -> "o" [] c = "R" -> "r" [] c = "I" -> "i"
      [] c = "Z" -> "z" [] c = "E" -> "e" [] c = "D" -> "d" [] c = "C" -> "c"
      [] c = "M" -> "m" [] c = "F" -> "f" [] c = "S" -> "s" [] c = "Q" -> "q"
      [] OTHER -> c

Lower(msg) == [i \in DOMAIN msg |-> LowerChar(msg[i])]

\* str.strip(): leading and trailing blanks removed
RECURSIVE Strip(_)
Strip(str) ==
    IF str = << >> THEN str
    ELSE IF Head(str) = " " THEN Strip(Tail(str))
    ELSE IF str[Len(str)] = " " THEN Strip(SubSeq(str, 1, Len(str) - 1))
    ELSE str

S_unauthorized == <<"u","n","a","u","t","h","o","r","i","z","e","d">>
S_authentication == <<"a","u","t","h","e","n","t","i","c","a","t","i","o","n">>
S_401 == <<"4","0","1">>

\* messages the remote calls can fail with
M_401 == <<"4","0","1">>
M_Unauthorized == <<"U","n","a","u","t","h","o","r","i","z","e","d">>
M_AuthFailed == <<"A","u","t","h","e","n","t","i","c","a","t","i","o","n"," ","f","a","i","l","e","d">>
M_NotAuthenticated == <<"N","o","t"," ","a","u","t","h","e","n","t","i","c","a","t","e","d">>
M_500 == <<"5","0","0">>
M_Empty == << >>
M_MFA == <<"M","u","l","t","i","-","F","a","c","t","o","r"," ","A","u","t","h"," ","R","e","q","u","i","r","e","d">>

\* exception classes: every class but CancelledError derives from Exception
IsException(type) == type # "CancelledError"

Cancelled == [type |-> "CancelledError", msg |-> M_Empty]

RemoteErrors ==
    {[type |-> "RequireMFAException", msg |-> M_MFA]}
    \cup {[type |-> "Exception", msg |-> m] :
            m \in {M_401, M_Unauthorized, M_AuthFailed, M_NotAuthenticated,
                   M_500, M_Empty}}

\* the test of lines 264-268
IsAuthError(msg) ==
    \/ Contains(Lower(msg), S_unauthorized)
    \/ Contains(Lower(msg), S_authentication)
    \/ Contains(msg, S_401)

\* ghost classification of a raised error, used only by the properties
ErrClass(e) ==
    IF e.type = "RequireMFAException" THEN "mfa"
    ELSE IF e.type = "CancelledError" THEN "cancelled"
    ELSE IF IsAuthError(e.msg) THEN "auth" ELSE "other"

\* ---------------------------------------------------------------- state
VARIABLES
    now,               \* the clock read by time.time() and by the timeout
    options,           \* self._config_entry.options
    update_interval,   \* self._update_interval
    timeout_,          \* self._timeout
    entry_data,        \* self._config_entry.data
    api,               \* self._api: identity of the handle in use
    auth_lock,         \* self._auth_lock: Free or the holding task
    last_auth_attempt, \* self._last_auth_attempt
    saved_session,     \* handle whose session is in the session file
    data,              \* coordinator.data: the published snapshot
    setup_state,       \* progress of async_setup
    session_loaded,    \* local of async_setup
    pc,                \* suspension point of each task
    pass,              \* fetch pass of the running cycle (1, 2 = retry)
    local,             \* the cycle's local dict `data`
    callApi,           \* handle on which the awaited call was issued
    fresh,             \* local fresh_api of _authenticate_with_credentials
    deadline,          \* expiry of the cycle's asyncio.timeout
    result,            \* how the task's last cycle left _async_update_data
    \* history (ghost) variables
    errClass,          \* class of the last error a fetch of the cycle raised
    authCalls,         \* _authenticate_with_credentials calls of the cycle
    authRec,           \* the task's running / last _authenticate_with_credentials
    loginLog,          \* the times at which a login call was issued
    loginsBeforeRefresh, \* live logins made when the first refresh started
    validation,        \* the _validate_session call of async_setup
    started,           \* the time at which the running cycle started
    cause,             \* class of the exception that reached lines 318-323
    \* the config flow (config_flow.py)
    config_entries,    \* the host's entries of this integration: their data
    user_input_,       \* self._user_input
    existing_entry,    \* self._existing_entry
    unique_id,         \* self.unique_id
    shown,             \* what the flow's last step returned to the host
    test,              \* history: the last credentials test of the flow
    \* the sensor platform (sensor.py)
    update_data,       \* coordinator.data as the sensors read it
    sensors,           \* the fields each sensor entity holds
    listener,          \* position of the next listener the host calls
    \* the integration's entry points (__init__.py)
    hass_data,         \* the keys of hass.data[DOMAIN]
    entry_state,       \* where the host is with each config entry
    history            \* history: each entry's last setup and unloads since

coordVars == <<now, options, update_interval, timeout_, entry_data, api,
               auth_lock, last_auth_attempt,
               saved_session, data, setup_state, session_loaded, pc, pass,
               local, callApi, fresh, deadline, result, errClass, authCalls,
               authRec, loginLog, loginsBeforeRefresh, validation, started,
               cause>>

flowVars == <<config_entries, user_input_, existing_entry, unique_id, shown,
              test>>

sensorVars == <<update_data, sensors, listener>>

registryVars == <<hass_data, entry_state, history>>

vars == <<coordVars, flowVars, sensorVars, registryVars>>

St == [now |-> now, options |-> options, update_interval |-> update_interval,
       timeout_ |-> timeout_, entry_data |-> entry_data,
       api |-> api, auth_lock |-> auth_lock,
       last_auth_attempt |-> last_auth_attempt,
       saved_session |-> saved_session, data |-> data,
       setup_state |-> setup_state, session_loaded |-> session_loaded,
       pc |-> pc, pass |-> pass, local |-> local, callApi |-> callApi,
       fresh |-> fresh, deadline |-> deadline, result |-> result,
       errClass |-> errClass, authCalls |-> authCalls,
       authRec |-> authRec, loginLog |-> loginLog,
       loginsBeforeRefresh |-> loginsBeforeRefresh,
       validation |-> validation, started |-> started, cause |-> cause]

Becomes(s) ==
    /\ now' = s.now /\ options' = s.options
    /\ update_interval' = s.update_interval
    /\ timeout_' = s.timeout_ /\ entry_data' = s.entry_data
    /\ api' = s.api /\ auth_lock' = s.auth_lock
    /\ last_auth_attempt' = s.last_auth_attempt
    /\ saved_session' = s.saved_session /\ data' = s.data
    /\ setup_state' = s.setup_state /\ session_loaded' = s.session_loaded
    /\ pc' = s.pc /\ pass' = s.pass /\ local' = s.local
    /\ callApi' = s.callApi /\ fresh' = s.fresh /\ deadline' = s.deadline
    /\ result' = s.result
    /\ errClass' = s.errClass
    /\ authCalls' = s.authCalls /\ authRec' = s.authRec
    /\ loginLog' = s.loginLog /\ loginsBeforeRefresh' = s.loginsBeforeRefresh
    /\ validation' = s.validation /\ started' = s.started /\ cause' = s.cause
    /\ UNCHANGED <<flowVars, sensorVars, registryVars>>

\* ------------------------------------------------------------- data dict
Fetches == <<"get_accounts", "get_transaction_categories", "get_cashflow">>
FetchSet == Range(Fetches)
KeyOf(call) ==
    CASE call = "get_accounts" -> "accounts"
      [] call = "get_transaction_categories" -> "categories"
      [] call = "get_cashflow" -> "cashflow"

\* the defaults of line 224: no dataset fetched
NotFetched == [pass |-> 0, api |-> 0]
EmptyData == [accounts |-> NotFetched, categories |-> NotFetched,
              cashflow |-> NotFetched]
NoData == [accounts |-> NotFetched, categories |-> NotFetched,
           cashflow |-> NotFetched, published |-> FALSE]

\* no _authenticate_with_credentials call yet
NoAuth == [at |-> -1, prev |-> -1, behind |-> -1,
           login |-> "none", save |-> "none", ret |-> "none",
           before |-> -1, after |-> -1, key |-> << >>]

\* ------------------------------------------------- leaving the poll cycle
Expired(s, t) == s.deadline[t] # NoDeadline /\ s.now >= s.deadline[t]

\* mutant: the cancellation is not turned into TimeoutError
TimeoutExit_M(type, expired) == type

\* asyncio.timeout.__aexit__ (line 228): the cancellation it requested
\* leaves the block as TimeoutError; everything else passes unchanged
TimeoutExit(type, expired) ==
    IF type = "CancelledError" /\ expired THEN "TimeoutError" ELSE type

\* lines 318-323
OuterHandler(type) ==
    IF type = "ConfigEntryAuthFailed" THEN "ConfigEntryAuthFailed"
    ELSE IF IsException(type) THEN "UpdateFailed"
    ELSE type

\* mutant: the platforms are forwarded however the first refresh ended
EndCycle_M(s, t, outcome) ==
    [s EXCEPT !.pc[t] = "idle",
              !.result[t] = outcome,
              !.deadline[t] = NoDeadline,
              !.started[t] = NotStarted,
              !.local[t] = EmptyData,
              !.callApi[t] = 0,
              !.fresh[t] = 0,
              !.data = IF outcome = "Snapshot"
                       THEN [accounts |-> s.local[t].accounts,
                             categories |-> s.local[t].categories,
                             cashflow |-> s.local[t].cashflow,
                             published |-> TRUE]
                       ELSE @,
              !.setup_state = IF @ = "first_refresh" /\ t = SetupTask
                              THEN "ready"
                              ELSE @]

\* _async_update_data ends: `outcome` is "Snapshot" (return data) or the
\* class of the exception that leaves it.  The host publishes a returned
\* dict as coordinator.data; async_setup (lines 104-111) forwards the
\* platforms only if the first refresh did not raise.
EndCycle(s, t, outcome) ==
    [s EXCEPT !.pc[t] = "idle",
              !.result[t] = outcome,
              !.deadline[t] = NoDeadline,
              !.started[t] = NotStarted,
              !.local[t] = EmptyData,
              !.callApi[t] = 0,
              !.fresh[t] = 0,
              !.data = IF outcome = "Snapshot"
                       THEN [accounts |-> s.local[t].accounts,
                             categories |-> s.local[t].categories,
                             cashflow |-> s.local[t].cashflow,
                             published |-> TRUE]
                       ELSE @,
              !.setup_state = IF @ = "first_refresh" /\ t = SetupTask
                              THEN (IF outcome = "Snapshot" THEN "ready"
                                    ELSE "failed")
                              ELSE @]

\* an exception of class `type` raised inside the timeout block
Leave(s, t, type) ==
    LET raised == TimeoutExit(type, Expired(s, t))
    IN EndCycle([s EXCEPT !.cause[t] = raised], t, OuterHandler(raised))

\* mutant: every pass gets a timeout of its own
StartPass_M(s, t, p) ==
    [s EXCEPT !.pass[t] = p, !.pc[t] = Fetches[1], !.callApi[t] = s.api,
              !.deadline[t] = s.now + s.timeout_]

\* lines 233 / 280: a pass starts by issuing get_accounts on self._api
StartPass(s, t, p) ==
    [s EXCEPT !.pass[t] = p, !.pc[t] = Fetches[1], !.callApi[t] = s.api]

\* lines 223-233: a cycle starts
BeginCycle(s, t) ==
    StartPass([s EXCEPT !.local[t] = EmptyData,
                        !.deadline[t] = s.now + s.timeout_,
                        !.started[t] = s.now,
                        !.cause[t] = "none",
                        !.result[t] = "running",
                        !.errClass[t] = "none",
                        !.authCalls[t] = 0,
                        !.authRec[t] = NoAuth], t, 1)

\* lines 103-104: async_setup reaches the first refresh
FirstRefresh(s, t) ==
    BeginCycle([s EXCEPT !.setup_state = "first_refresh",
                         !.loginsBeforeRefresh = Len(s.loginLog)], t)

\* ------------------------------------------ _authenticate_with_credentials
\* mutant: the window is compared in minutes
RateLimited_M(current_time, last) == current_time - last < 1

\* line 128
RateLimited(current_time, last) == current_time - last < RateLimitWindow

\* line 142
MissingCredentials(d) == d.email = "" \/ d.password = ""

\* mutant: the stored secret is never handed to the login call
MfaKey_M(d) == << >>

\* lines 150-180: the mfa_secret_key argument of the login call, << >> when
\* the call is made without it (None and "" are both false at line 162)
MfaKey(d) ==
    LET mfa_secret == Get(d, "mfa_secret", << >>)
    IN IF mfa_secret # << >> /\ Strip(mfa_secret) # << >>
       THEN Strip(mfa_secret) ELSE << >>

\* lines 193-200: what the except clauses make of an exception raised in
\* the try block: "False" (return False) or the class that propagates
AuthExcept(type) == IF IsException(type) THEN "False" ELSE type

\* history: the body of the call starts with the lock acquired
Entered(s, t, login) ==
    [s.authRec[t] EXCEPT !.at = s.now,
        !.prev = IF s.loginLog = << >> THEN -1 ELSE s.loginLog[Len(s.loginLog)],
        !.login = login, !.before = s.api]

\* history: the call returns `ret` without having suspended
Returned(s, t, login, ret) ==
    [Entered(s, t, login) EXCEPT !.ret = ret, !.after = s.api]

\* mutant: the result of the re-authentication is not tested
AuthReturn_M(s, t, ok) ==
    IF s.setup_state = "authenticating" THEN FirstRefresh(s, t)
    ELSE StartPass(s, t, s.pass[t] + 1)

\* the caller's continuation when _authenticate_with_credentials returns:
\* async_setup goes on to the first refresh (lines 98-104); the cycle starts
\* the retry pass (line 280) or raises ConfigEntryAuthFailed (line 313)
AuthReturn(s, t, ok) ==
    IF s.setup_state = "authenticating" THEN FirstRefresh(s, t)
    ELSE IF ok THEN StartPass(s, t, s.pass[t] + 1)
    ELSE Leave(s, t, "ConfigEntryAuthFailed")

\* mutant: the time of a live attempt is not recorded
AuthLocked_M(s, t) ==
    LET current_time == s.now
    IN IF RateLimited(current_time, s.last_auth_attempt)
       THEN AuthReturn([s EXCEPT !.authRec[t] = Returned(s, t, "skipped", "False")],
                       t, FALSE)
       ELSE IF MissingCredentials(s.entry_data)
       THEN AuthReturn([s EXCEPT !.authRec[t] = Returned(s, t, "nocreds", "False")],
                       t, FALSE)
       ELSE [s EXCEPT !.auth_lock = t,
                      !.fresh[t] = Len(s.loginLog) + 1,
                      !.pc[t] = "login",
                      !.authRec[t] = [Entered(s, t, "pending") EXCEPT
                                         !.key = MfaKey(s.entry_data)],
                      !.loginLog = Append(@, current_time)]

\* lines 125-181 with the lock acquired: the rate check, the credentials
\* check and the issue of the login call on a fresh handle
AuthLocked(s, t) ==
    LET current_time == s.now
    IN IF RateLimited(current_time, s.last_auth_attempt)
       THEN AuthReturn([s EXCEPT !.authRec[t] = Returned(s, t, "skipped", "False")],
                       t, FALSE)
       ELSE IF MissingCredentials(s.entry_data)
       THEN AuthReturn([s EXCEPT !.last_auth_attempt = current_time,
                                 !.authRec[t] = Returned(s, t, "nocreds", "False")],
                       t, FALSE)
       ELSE [s EXCEPT !.last_auth_attempt = current_time,
                      !.auth_lock = t,
                      !.fresh[t] = Len(s.loginLog) + 1,
                      !.pc[t] = "login",
                      !.authRec[t] = [Entered(s, t, "pending") EXCEPT
                                         !.key = MfaKey(s.entry_data)],
                      !.loginLog = Append(@, current_time)]

\* mutant: the body runs without waiting for the lock
AuthInvoke_M(s, t) ==
    AuthLocked([s EXCEPT !.authCalls[t] = @ + 1, !.authRec[t] = NoAuth], t)

\* lines 98 / 274: the call; a held lock suspends the caller at line 125
AuthInvoke(s, t) ==
    LET s1 == [s EXCEPT !.authCalls[t] = @ + 1, !.authRec[t] = NoAuth]
    IN IF s.auth_lock # Free
       THEN [s1 EXCEPT !.pc[t] = "auth_wait",
                       !.authRec[t].behind = s.authRec[s.auth_lock].at]
       ELSE AuthLocked(s1, t)

\* mutant: the block is left with the lock still held
AuthExit_M(s, t, login, save, ret) ==
    [s EXCEPT !.authRec[t] = [@ EXCEPT !.login = login,
                                       !.save = save, !.ret = ret,
                                       !.after = s.api]]

\* leaving the `async with self._auth_lock` block with the lock held
AuthExit(s, t, login, save, ret) ==
    [s EXCEPT !.auth_lock = Free,
              !.authRec[t] = [@ EXCEPT !.login = login,
                                       !.save = save, !.ret = ret,
                                       !.after = s.api]]

\* mutant: the old handle stays in use after the login
LoginOk_M(s, t) ==
    [s EXCEPT !.pc[t] = "save_session",
              !.authRec[t].login = "ok",
              !.authRec[t].save = "pending"]

\* lines 164-188: login returned; the handle is replaced and save_session
\* is handed to the executor
LoginOk(s, t) ==
    [s EXCEPT !.api = s.fresh[t],
              !.pc[t] = "save_session",
              !.authRec[t].login = "ok",
              !.authRec[t].save = "pending"]

\* mutant: the session of the handle is written although its login failed
LoginFail_M(s, t, e) ==
    LET login == IF e.type = "RequireMFAException" THEN "mfa"
                 ELSE IF e.type = "CancelledError" THEN "cancelled"
                 ELSE "failed"
        s1 == [s EXCEPT !.saved_session = s.fresh[t]]
    IN IF AuthExcept(e.type) = "False"
       THEN AuthReturn(AuthExit(s1, t, login, "none", "False"), t, FALSE)
       ELSE Leave(AuthExit(s1, t, login, "none", "cancelled"), t, AuthExcept(e.type))

\* an exception raised by the awaited login
LoginFail(s, t, e) ==
    LET login == IF e.type = "RequireMFAException" THEN "mfa"
                 ELSE IF e.type = "CancelledError" THEN "cancelled"
                 ELSE "failed"
    IN IF AuthExcept(e.type) = "False"
       THEN AuthReturn(AuthExit(s, t, login, "none", "False"), t, FALSE)
       ELSE Leave(AuthExit(s, t, login, "none", "cancelled"), t, AuthExcept(e.type))

\* lines 188-191
SaveOk(s, t) ==
    AuthReturn(AuthExit([s EXCEPT !.saved_session = s.fresh[t]],
                        t, "ok", "ok", "True"), t, TRUE)

\* an exception raised by the awaited save_session job
SaveFail(s, t, e, written) ==
    LET s1 == [s EXCEPT !.saved_session = IF written THEN s.fresh[t] ELSE @]
        save == IF e.type = "CancelledError" THEN "cancelled" ELSE "failed"
    IN IF AuthExcept(e.type) = "False"
       THEN AuthReturn(AuthExit(s1, t, "ok", save, "False"), t, FALSE)
       ELSE Leave(AuthExit(s1, t, "ok", save, "cancelled"), t, AuthExcept(e.type))

\* ------------------------------------------------------ _async_update_data
\* mutant: RequireMFAException has no clause of its own and starts the
\* re-authentication
FirstPassHandler_M(e) ==
    IF IsException(e.type)
    THEN (IF IsAuthError(e.msg) \/ e.type = "RequireMFAException"
          THEN "reauth" ELSE "UpdateFailed")
    ELSE e.type

\* lines 256-316: the except clauses of the first pass.  The result is the
\* class of the exception raised, "reauth" for line 274, or the class that
\* propagates because no clause catches it
FirstPassHandler(e) ==
    IF e.type = "RequireMFAException" THEN "ConfigEntryAuthFailed"
    ELSE IF IsException(e.type)
         THEN (IF IsAuthError(e.msg) THEN "reauth" ELSE "UpdateFailed")
         ELSE e.type

\* mutant: the retry pass handles errors like the first pass
RetryPassHandler_M(e) == FirstPassHandler(e)

\* lines 302-308: the except clause of the retry pass
RetryPassHandler(e) ==
    IF IsException(e.type) THEN "ConfigEntryAuthFailed" ELSE e.type

\* mutant: the dict is returned before get_cashflow has been awaited
FetchOk_M(s, t) ==
    LET call == s.pc[t]
        k == CHOOSE i \in DOMAIN Fetches : Fetches[i] = call
        tag == [pass |-> s.pass[t], api |-> s.callApi[t]]
        s1 == [s EXCEPT !.local[t][KeyOf(call)] = tag]
    IN IF k < Len(Fetches) - 1
       THEN [s1 EXCEPT !.pc[t] = Fetches[k + 1], !.callApi[t] = s.api]
       ELSE EndCycle(s1, t, "Snapshot")

\* an awaited fetch returned: lines 233-245 / 280-301, 317
FetchOk(s, t) ==
    LET call == s.pc[t]
        k == CHOOSE i \in DOMAIN Fetches : Fetches[i] = call
        tag == [pass |-> s.pass[t], api |-> s.callApi[t]]
        s1 == [s EXCEPT !.local[t][KeyOf(call)] = tag]
    IN IF k < Len(Fetches)
       THEN [s1 EXCEPT !.pc[t] = Fetches[k + 1], !.callApi[t] = s.api]
       ELSE EndCycle(s1, t, "Snapshot")

\* an awaited fetch raised e
FetchFail(s, t, e) ==
    LET s1 == [s EXCEPT !.errClass[t] = ErrClass(e)]
        h == IF s.pass[t] = 1 THEN FirstPassHandler(e) ELSE RetryPassHandler(e)
    IN IF h = "reauth" THEN AuthInvoke(s1, t) ELSE Leave(s1, t, h)

\* the cycle's timeout fires: the suspended coroutine is cancelled
\* (`written`: the save job already running in the executor still writes)
TimedOut(s, t, written) ==
    CASE s.pc[t] \in FetchSet ->
             Leave(s, t, IF s.pass[t] = 1 THEN FirstPassHandler(Cancelled)
                         ELSE RetryPassHandler(Cancelled))
      [] s.pc[t] = "auth_wait" -> Leave(s, t, "CancelledError")
      [] s.pc[t] = "login" -> LoginFail(s, t, Cancelled)
      [] s.pc[t] = "save_session" -> SaveFail(s, t, Cancelled, written)

\* ------------------------------------------------------------ async_setup
\* the awaited call returned
Returns == [type |-> "return", msg |-> M_Empty]

\* what _validate_session can observe or assign besides its result
Frame(s) == <<s.api, s.last_auth_attempt, s.auth_lock, s.saved_session>>

\* no _validate_session call yet
NoValidation == [calls |-> 0, live |-> "unknown", raised |-> FALSE,
                 ret |-> "none", before |-> << >>, after |-> << >>]

\* mutant: an exception of the call leaves _validate_session
ValidateSession_M(outcome) ==
    IF outcome.type = "return" THEN "True" ELSE outcome.type

\* lines 115-121: the result for an outcome of get_subscription_details,
\* "True", "False" or the class of the exception that propagates
ValidateSession(outcome) ==
    IF outcome.type = "return" THEN "True"
    ELSE IF IsException(outcome.type) THEN "False"
    ELSE outcome.type

\* line 117: _validate_session issues its one call on self._api
ValidateIssue(s, t) ==
    [s EXCEPT !.pc[t] = "validate",
              !.callApi[t] = s.api,
              !.validation = [NoValidation EXCEPT
                                                  !.calls = s.validation.calls + 1,
                                                  !.before = Frame(s)]]

\* mutant: a validation counts as an authentication attempt
ValidateDone_M(s, outcome, live) ==
    LET s1 == [s EXCEPT !.last_auth_attempt = s.now]
    IN [s1 EXCEPT !.validation = [@ EXCEPT !.live = live,
                                    !.raised = outcome.type # "return",
                                    !.ret = ValidateSession(outcome),
                                    !.after = Frame(s1)]]

\* lines 117-121: the call came back with `outcome`; `live` tells whether
\* the remote side still accepts the session (history only)
ValidateDone(s, outcome, live) ==
    [s EXCEPT !.validation = [@ EXCEPT !.live = live,
                                !.raised = outcome.type # "return",
                                !.ret = ValidateSession(outcome),
                                !.after = Frame(s)]]

\* mutant: a session that was read from the file counts as loaded
SessionLoaded_M(ret) == TRUE

\* lines 83-89: session_loaded after _validate_session gave `ret`; an
\* exception leaving it would be caught at line 89
SessionLoaded(ret) == ret = "True"

\* every way the awaited get_subscription_details can come back
ValidateOutcomes ==
    {<<Returns, "live">>}
    \cup {<<e, live>> : e \in RemoteErrors, live \in {"live", "revoked"}}

\* mutant: setup always authenticates
NeedsInitialAuth_M(loaded) == TRUE

\* line 94
NeedsInitialAuth(loaded) == ~loaded

\* lines 83-104 after the validation call came back
AfterValidate(s, t, outcome, live) ==
    LET s0 == ValidateDone(s, outcome, live)
        s1 == [s0 EXCEPT !.session_loaded = SessionLoaded(s0.validation.ret)]
    IN IF NeedsInitialAuth(s1.session_loaded)
       THEN AuthInvoke([s1 EXCEPT !.setup_state = "authenticating"], t)
       ELSE FirstRefresh(s1, t)

\* lines 89-104: load_session raised
AfterLoadFailed(s, t) ==
    IF NeedsInitialAuth(s.session_loaded)
    THEN AuthInvoke([s EXCEPT !.setup_state = "authenticating"], t)
    ELSE FirstRefresh(s, t)

\* ------------------------------------------------------------ config flow
S_429 == <<"4","2","9">>
S_too_many_requests == <<"t","o","o"," ","m","a","n","y"," ","r","e","q","u","e","s","t","s">>
S_mfa == <<"m","f","a">>
S_multi_factor == <<"m","u","l","t","i","-","f","a","c","t","o","r">>

M_429 == <<"H","T","T","P"," ","4","2","9">>
M_TooMany == <<"T","o","o"," ","M","a","n","y"," ","R","e","q","u","e","s","t","s">>
M_Both == <<"4","2","9"," ","U","n","a","u","t","h","o","r","i","z","e","d">>

\* lines 142, 190, 243
IsRateLimitSignal(error_str) ==
    \/ Contains(error_str, S_429)
    \/ Contains(error_str, S_too_many_requests)

\* lines 146-152, 161-167, 194-200, 210-216
IsMfaHint(error_str) ==
    \/ Contains(error_str, S_401)
    \/ Contains(error_str, S_unauthorized)
    \/ Contains(error_str, S_mfa)
    \/ Contains(error_str, S_multi_factor)
    \/ Contains(error_str, S_authentication)

\* LoginFailedException and RequireMFAException derive from Exception
FlowErrorTypes == {"LoginFailedException", "Exception"}
FlowMessages == {M_429, M_TooMany, M_Both, M_401, M_Unauthorized, M_MFA,
                 M_AuthFailed, M_500, M_Empty}
FlowErrors ==
    {[type |-> "RequireMFAException", msg |-> M_MFA]}
    \cup {[type |-> ty, msg |-> m] : ty \in FlowErrorTypes, m \in FlowMessages}

\* mutant: the MFA substrings are tested before the rate-limit substrings
ConnectionExcept_M(e) ==
    LET error_str == Lower(e.msg)
    IN IF e.type = "RequireMFAException" THEN "RequireMFA"
       ELSE IF e.type = "LoginFailedException"
       THEN (IF IsMfaHint(error_str) THEN "RequireMFA"
             ELSE IF IsRateLimitSignal(error_str) THEN "RateLimited"
             ELSE "InvalidAuth")
       ELSE IF IsException(e.type)
       THEN (IF IsMfaHint(error_str) THEN "RequireMFA" ELSE "InvalidAuth")
       ELSE e.type

\* the except clauses of _test_connection_and_set_token, the same after
\* the login call (lines 133-170) and after get_accounts / save_session
\* (lines 181-220): the flow exception raised for e
ConnectionExcept(e) ==
    LET error_str == Lower(e.msg)
    IN IF e.type = "RequireMFAException" THEN "RequireMFA"
       ELSE IF e.type = "LoginFailedException"
       THEN (IF IsRateLimitSignal(error_str) THEN "RateLimited"
             ELSE IF IsMfaHint(error_str) THEN "RequireMFA"
             ELSE "InvalidAuth")
       ELSE IF IsException(e.type)
       THEN (IF IsMfaHint(error_str) THEN "RequireMFA" ELSE "InvalidAuth")
       ELSE e.type

\* mutant: the MFA test classifies like the credentials test
MfaExcept_M(e) == ConnectionExcept(e)

\* the except clauses of _test_mfa_and_set_token (lines 239-250)
MfaExcept(e) ==
    LET error_str == Lower(e.msg)
    IN IF e.type = "LoginFailedException"
       THEN (IF IsRateLimitSignal(error_str) THEN "RateLimited"
             ELSE "InvalidAuth")
       ELSE IF IsException(e.type) THEN "InvalidAuth"
       ELSE e.type

\* lines 118-132: the mfa_secret_key argument of the login call, << >> when
\* the call is made without it
FlowMfaKey(ui) ==
    IF "mfa_secret" \in DOMAIN ui THEN ui.mfa_secret ELSE << >>

\* dict assignment and dict.pop(key, None)
Put(d, key, value) ==
    [k \in DOMAIN d \cup {key} |-> IF k = key THEN value ELSE d[k]]
Pop(d, key) == [k \in DOMAIN d \ {key} |-> d[k]]

EmptyDict == [k \in {} |-> 0]

\* mutant: a form without a secret keeps the secret held before
WithSecret_M(ui, form) ==
    IF "mfa_secret" \in DOMAIN form /\ Strip(form.mfa_secret) # << >>
    THEN Put(ui, "mfa_secret", Strip(form.mfa_secret))
    ELSE ui

\* lines 279-283, 289-293, 303-307
WithSecret(ui, form) ==
    IF "mfa_secret" \in DOMAIN form /\ Strip(form.mfa_secret) # << >>
    THEN Put(ui, "mfa_secret", Strip(form.mfa_secret))
    ELSE Pop(ui, "mfa_secret")

\* lines 273-307: self._user_input after the submitted form was taken in
UpdateInput(ui, existing, form, step_id) ==
    IF step_id = "mfa" THEN Put(ui, "mfa_code", form.mfa_code)
    ELSE IF step_id = "reauth_confirm"
    THEN LET u1 == WithSecret(Put(ui, "password", form.password), form)
         IN IF existing # EmptyDict THEN Put(u1, "email", existing.email)
            ELSE u1
    ELSE WithSecret(Put(Put(ui, "email", form.email),
                        "password", form.password), form)

\* the remote calls of a credentials test in the order in which lines
\* 118-178 / 226-237 await them
TestStages(step_id) ==
    IF step_id = "mfa"
    THEN <<"multi_factor_authenticate", "get_accounts", "save_session">>
    ELSE <<"login", "get_accounts", "save_session">>

\* the calls a test makes in a course: an exception ends the try block
CallsMade(step_id, course) ==
    SubSeq(TestStages(step_id), 1,
           IF course.stage = 0 THEN Len(TestStages(step_id)) ELSE course.stage)

\* the course of a test: every call returned (stage 0), or the calls before
\* `stage` returned and that one raised err (1: login or
\* multi_factor_authenticate, 2: get_accounts, 3: save_session)
TestCourses ==
    {[stage |-> 0, err |-> Returns]}
    \cup {[stage |-> k, err |-> e] : k \in {1, 2}, e \in FlowErrors}
    \cup {[stage |-> 3, err |-> [type |-> "Exception", msg |-> M_Empty]]}

\* the remote side answers a login with the MFA challenge only when the
\* call carries no mfa_secret_key
CoursePossible(course, step_id, key) ==
    (course.stage = 1 /\ course.err.type = "RequireMFAException") =>
        (step_id # "mfa" /\ key = << >>)

\* lines 112-220 / 222-250: "ok" when the test returns, else the flow
\* exception it raises
TestResult(course, step_id) ==
    IF course.stage = 0 THEN "ok"
    ELSE IF step_id = "mfa" THEN MfaExcept(course.err)
    ELSE ConnectionExcept(course.err)

NoForm == [type |-> "none", step_id |-> "none", errors |-> "none"]
Form(step_id, errors) ==
    [type |-> "form", step_id |-> step_id, errors |-> errors]
Finished(type, reason) ==
    [type |-> type, step_id |-> "none", errors |-> reason]

NoTest == [step_id |-> "none", key |-> << >>, stage |-> 0, err |-> Returns,
           raised |-> "none", form_secret |-> << >>, effect |-> "none"]

\* lines 318-341: the form shown for a flow exception of the test
AfterTestFailed(raised, step_id) ==
    IF raised = "RequireMFA" THEN Form("mfa", "none")
    ELSE IF raised = "RateLimited" THEN Form(step_id, "rate_limited")
    ELSE IF raised = "InvalidAuth" THEN Form(step_id, "invalid_auth")
    ELSE Form(step_id, "cannot_connect")

Fl == [config_entries |-> config_entries, user_input_ |-> user_input_,
       existing_entry |-> existing_entry, unique_id |-> unique_id,
       shown |-> shown, test |-> test]

FlowBecomes(f) ==
    /\ config_entries' = f.config_entries /\ user_input_' = f.user_input_
    /\ existing_entry' = f.existing_entry /\ unique_id' = f.unique_id
    /\ shown' = f.shown /\ test' = f.test
    /\ UNCHANGED <<coordVars, sensorVars, registryVars>>

\* the entries whose unique id is uid
EntriesOf(entries, uid) ==
    {i \in DOMAIN entries : entries[i].email = uid}

\* mutant: a successful re-authentication stores its data as a new entry
AfterTestOk_M(f, step_id) ==
    IF step_id \in {"user", "mfa_setup"}
    THEN [f EXCEPT !.shown = Finished("create_entry", f.user_input_.email),
                   !.test.effect = "created",
                   !.config_entries = Append(@, f.user_input_)]
    ELSE [f EXCEPT !.shown = Finished("abort", "reauth_successful"),
                   !.test.effect = "created",
                   !.config_entries = Append(@, f.user_input_)]

\* lines 343-363: the test returned.  history: test.effect tells whether an
\* entry was created (line 344), updated and reloaded (lines 352-355) or
\* neither (line 350 found no entry)
AfterTestOk(f, step_id) ==
    IF step_id \in {"user", "mfa_setup"}
    THEN [f EXCEPT !.shown = Finished("create_entry", f.user_input_.email),
                   !.test.effect = "created",
                   !.config_entries = Append(@, f.user_input_)]
    ELSE [f EXCEPT !.shown = Finished("abort", "reauth_successful"),
                   !.test.effect =
                       IF EntriesOf(f.config_entries, f.unique_id) # {}
                       THEN "updated_reloaded" ELSE "no_entry",
                   !.config_entries =
                       [i \in DOMAIN @ |->
                           IF i \in EntriesOf(@, f.unique_id)
                           THEN f.user_input_ ELSE @[i]]]

\* _validate_and_create_entry(user_input, step_id), lines 269-363
ValidateAndCreateEntry(f, form, step_id, course) ==
    LET ui == UpdateInput(f.user_input_, f.existing_entry, form, step_id)
        f1 == [f EXCEPT !.user_input_ = ui,
                        !.unique_id = IF @ = "none" THEN ui.email ELSE @]
        raised == TestResult(course, step_id)
        f2 == [f1 EXCEPT !.test = [step_id |-> step_id,
                                   key |-> IF step_id = "mfa" THEN << >>
                                           ELSE FlowMfaKey(ui),
                                   stage |-> course.stage,
                                   err |-> course.err,
                                   raised |-> raised,
                                   form_secret |->
                                       IF step_id = "mfa"
                                       THEN f.test.form_secret
                                       ELSE Get(form, "mfa_secret", << >>),
                                   effect |-> "none"]]
    IN IF f.unique_id = "none" /\ EntriesOf(f.config_entries, ui.email) # {}
       THEN [f1 EXCEPT !.shown = Finished("abort", "already_configured")]
       ELSE IF raised = "ok" THEN AfterTestOk(f2, step_id)
       ELSE [f2 EXCEPT !.shown = AfterTestFailed(raised, step_id)]

\* what the user can type into the forms
Emails == {"user@example.com"}
SecretInputs == {<<" ">>, <<" ", "K", "7">>}
CredentialForms ==
    {[email |-> e, password |-> "secret"] : e \in Emails}
    \cup {[email |-> e, password |-> "secret", mfa_secret |-> k] :
            e \in Emails, k \in SecretInputs}
ReauthForms ==
    {[password |-> "secret"]}
    \cup {[password |-> "secret", mfa_secret |-> k] : k \in SecretInputs}
MfaForms == {[mfa_code |-> "123456"]}

FlowIdle ==
    /\ user_input_ = EmptyDict
    /\ existing_entry = EmptyDict
    /\ unique_id = "none"
    /\ shown = NoForm
    /\ test = NoTest

NoFlowInProgress == shown.type # "form"

\* async_step_user(None), lines 365-370, on a new flow object
StartUser ==
    /\ NoFlowInProgress
    /\ FlowBecomes([Fl EXCEPT !.user_input_ = EmptyDict,
                             !.existing_entry = EmptyDict,
                             !.unique_id = "none",
                             !.shown = Form("user", "none"),
                             !.test = NoTest])

\* async_step_reauth(entry_data), lines 392-412, on a new flow object
StartReauth ==
    /\ NoFlowInProgress
    /\ \E i \in DOMAIN config_entries :
          LET entry_data_ == config_entries[i]
          IN FlowBecomes([Fl EXCEPT
                 !.unique_id = entry_data_.email,
                 !.existing_entry = entry_data_,
                 !.user_input_ = [email |-> entry_data_.email,
                                  password |-> entry_data_.password],
                 !.shown = Form("reauth_confirm", "none"),
                 !.test = NoTest])

\* a submitted form reaches _validate_and_create_entry, whose test takes
\* one of the courses the remote side can give it
Submit(step_id, form, course) ==
    /\ CoursePossible(course, step_id,
          FlowMfaKey(UpdateInput(user_input_, existing_entry, form, step_id)))
    /\ FlowBecomes(ValidateAndCreateEntry(Fl, form, step_id, course))

\* async_step_user(user_input)
SubmitUser ==
    /\ shown = Form("user", shown.errors)
    /\ \E form \in CredentialForms : \E course \in TestCourses :
          Submit("user", form, course)

\* async_step_mfa(user_input); the form of async_step_reauth_mfa carries
\* step_id "mfa" as well, so the host hands its input to async_step_mfa
SubmitMfa ==
    /\ shown = Form("mfa", shown.errors)
    /\ \E form \in MfaForms : \E course \in TestCourses :
          Submit("mfa", form, course)

\* async_step_reauth_confirm(user_input)
SubmitReauthConfirm ==
    /\ shown = Form("reauth_confirm", shown.errors)
    /\ \E form \in ReauthForms : \E course \in TestCourses :
          Submit("reauth_confirm", form, course)

NextFlow ==
    \/ StartUser
    \/ StartReauth
    \/ SubmitUser
    \/ SubmitMfa
    \/ SubmitReauthConfirm

\* ---------------------------------------------------------------- sensors
\* A JSON null or a Python None is the empty tuple; a present nullable
\* value v is <<v>>.  Money is counted in cents, a rate in 1/10000.
None == << >>
Some(v) == <<v>>

ATTR_ASSETS == "ASSETS"
ATTR_LIABILITIES == "LIABILITIES"

\* the category names in the order of the dict's keys
Categories ==
    <<"Investments", "Credit Cards", "Cash", "Loans", "Other", "Real Estate",
      "Valuables", "Vehicles", "Other Assets", "Other Liabilities">>

SENSOR_TYPES_GROUP ==
    [c \in Range(Categories) |->
        CASE c = "Investments" ->
               [type |-> "brokerage", group |-> ATTR_ASSETS]
          [] c = "Credit Cards" ->
               [type |-> "credit", group |-> ATTR_LIABILITIES]
          [] c = "Cash" ->
               [type |-> "depository", group |-> ATTR_ASSETS]
          [] c = "Loans" ->
               [type |-> "loan", group |-> ATTR_LIABILITIES]
          [] c = "Other" ->
               [type |-> "other", group |-> "OTHER"]
          [] c = "Real Estate" ->
               [type |-> "real_estate", group |-> ATTR_ASSETS]
          [] c = "Valuables" ->
               [type |-> "valuables", group |-> ATTR_ASSETS]
          [] c = "Vehicles" ->
               [type |-> "vehicle", group |-> ATTR_ASSETS]
          [] c = "Other Assets" ->
               [type |-> "other_asset", group |-> ATTR_ASSETS]
          [] c = "Other Liabilities" ->
               [type |-> "other_liability", group |-> ATTR_LIABILITIES]]

\* the entities in the order async_setup_entry adds them, which is the
\* order in which the coordinator calls their listeners
Listeners ==
    Categories \o <<"Net Worth", "Cash Flow", "Income", "Expense">>

\* sum() over a sequence of numbers
RECURSIVE Sum(_)
Sum(seq) == IF seq = << >> THEN 0 ELSE Head(seq) + Sum(Tail(seq))

\* mutant: halves are rounded up
Round_M(cents) ==
    LET q == cents \div 100
        r == cents % 100
    IN  IF 2 * r < 100 THEN q ELSE q + 1

\* round() of an amount: the nearest whole unit, a half going to the even
\* neighbour
Round(cents) ==
    LET q == cents \div 100
        r == cents % 100
    IN  IF 2 * r < 100 THEN q
        ELSE IF 2 * r > 100 THEN q + 1
        ELSE IF q % 2 = 0 THEN q ELSE q + 1

\* format_date(date_str) read at time now_: date_str is the time of the
\* update in seconds
format_date(date_str, now_) ==
    LET seconds == now_ - date_str
        minutes == seconds \div 60
        hours == minutes \div 60
        days == hours \div 24
    IN  IF days > 0
        THEN [n |-> days, unit |-> IF days > 1 THEN "days ago" ELSE "day ago"]
        ELSE IF hours > 0
        THEN [n |-> hours,
              unit |-> IF hours > 1 THEN "hours ago" ELSE "hour ago"]
        ELSE IF minutes > 0
        THEN [n |-> minutes,
              unit |-> IF minutes > 1 THEN "minutes ago" ELSE "minute ago"]
        ELSE [n |-> 0, unit |-> "just now"]

\* the fields of a sensor entity after __init__
NewSensor(name) ==
    [state |-> None,
     attrs |-> CASE name \in Range(Categories) -> EmptyDict
                 [] name = "Net Worth" ->
                      [assets |-> None, liabilities |-> None]
                 [] name = "Cash Flow" ->
                      [income |-> None, expense |-> None, savings |-> None,
                       savings_rate |-> None]
                 [] OTHER -> [categories |-> EmptyDict],
     raised |-> "none",
     called |-> FALSE,
     written |-> FALSE]

\* a handler that raised left the fields as they were
Raised(self, exception) ==
    [self EXCEPT !.raised = exception, !.called = TRUE]

\* a handler that reached async_write_ha_state()
Written(self, state, attrs) ==
    [self EXCEPT !.state = state, !.attrs = attrs, !.raised = "none",
                 !.called = TRUE, !.written = TRUE]

\* account.get("type", {}).get("name")
TypeName(account) == Get(Get(account, "type", EmptyDict), "name", "None")

\* the accounts a category sensor selects
SensorTypeAccounts(accounts, account_type) ==
    LET Matches(account) == TypeName(account) = account_type
    IN  SelectSeq(accounts, Matches)

\* the institution name, None when the credential is null
Institution(account) ==
    LET credential == Get(account, "credential", Some(EmptyDict))
    IN  IF credential = None THEN None
        ELSE Some(Get(Get(credential[1], "institution", EmptyDict),
                      "name", ""))

\* self._account_data: one item per account id, a later account replacing
\* an earlier one of the same id
AccountData(sensor_type_accounts, now_) ==
    LET Id(i) == Get(sensor_type_accounts[i], "id", "")
        Last(id) ==
            CHOOSE i \in DOMAIN sensor_type_accounts :
                /\ Id(i) = id
                /\ \A j \in DOMAIN sensor_type_accounts : Id(j) = id => j <= i
    IN  [id \in {Id(i) : i \in DOMAIN sensor_type_accounts} |->
            LET account == sensor_type_accounts[Last(id)]
            IN  [id |-> Get(account, "id", ""),
                 name |-> Get(account, "displayName", ""),
                 balance |-> Get(account, "displayBalance", ""),
                 account_type |-> TypeName(account),
                 updated |-> format_date(account.updatedAt, now_),
                 institution |-> Institution(account)]]

\* the balances that are not null, in the accounts' order
RECURSIVE Balances(_)
Balances(accounts) ==
    IF accounts = << >> THEN << >>
    ELSE LET balance == Get(Head(accounts), "displayBalance", None)
         IN  (IF balance = None THEN << >> ELSE balance)
                 \o Balances(Tail(accounts))

\* MonarchMoneyCategorySensor._handle_coordinator_update
CategoryUpdate(self, category, data_, now_) ==
    IF DOMAIN data_ = {} THEN [self EXCEPT !.called = TRUE]
    ELSE LET accounts == Get(data_, "accounts", << >>)
             sensor_type_accounts ==
                 SensorTypeAccounts(accounts,
                                    SENSOR_TYPES_GROUP[category].type)
             sensor_type_accounts_sum ==
                 Round(Sum(Balances(sensor_type_accounts)))
         IN  Written(self, Some(sensor_type_accounts_sum),
                     AccountData(sensor_type_accounts, now_))

\* liability_accounts of the net-worth sensor
LiabilityAccounts(accounts, active_accounts) ==
    LET IsLiability(account) == account.isAsset = FALSE
    IN  SelectSeq(accounts, IsLiability)

\* active_accounts of the net-worth sensor
ActiveAccounts(accounts) ==
    LET Active(account) ==
            account.includeInNetWorth = TRUE /\ account.isHidden = FALSE
    IN  SelectSeq(accounts, Active)

\* asset_accounts of the net-worth sensor
AssetAccounts(active_accounts) ==
    LET IsAsset(account) == account.isAsset = TRUE
    IN  SelectSeq(active_accounts, IsAsset)

\* sum() meets a null balance
HasNullBalance(accounts) ==
    \E i \in DOMAIN accounts : accounts[i].displayBalance = None

\* MonarchMoneyNetWorthSensor._handle_coordinator_update
NetWorthUpdate(self, data_) ==
    IF DOMAIN data_ = {} THEN [self EXCEPT !.called = TRUE]
    ELSE LET accounts == Get(data_, "accounts", << >>)
             active_accounts == ActiveAccounts(accounts)
             asset_accounts == AssetAccounts(active_accounts)
             liability_accounts == LiabilityAccounts(accounts, active_accounts)
         IN  IF HasNullBalance(asset_accounts)
                    \/ HasNullBalance(liability_accounts)
             THEN Raised(self, "TypeError")
             ELSE LET asset_accounts_sum ==
                          Round(Sum(Balances(asset_accounts)))
                      liability_accounts_sum ==
                          Round(Sum(Balances(liability_accounts)))
                  IN  Written(self,
                          Some(asset_accounts_sum - liability_accounts_sum),
                          [assets |-> Some(asset_accounts_sum),
                           liabilities |-> Some(liability_accounts_sum)])

\* mutant: the rate is stored as it came
SavingsRate_M(summary) == Get(summary, "savingsRate", None)

\* self._savings_rate
SavingsRate(summary) == summary.savingsRate * 100

\* MonarchMoneyCashFlowSensor._handle_coordinator_update
CashFlowUpdate(self, data_) ==
    IF DOMAIN data_ = {} THEN [self EXCEPT !.called = TRUE]
    ELSE LET cashflow == Get(data_, "cashflow", EmptyDict)
         IN  IF "summary" \notin DOMAIN cashflow
             THEN Raised(self, "TypeError")
             ELSE IF cashflow.summary = << >>
             THEN Raised(self, "IndexError")
             ELSE LET summary == cashflow.summary[1].summary
                  IN  Written(self, Some(summary.savings),
                          [income |-> Some(summary.sumIncome),
                           expense |-> Some(summary.sumExpense),
                           savings |-> Some(summary.savings),
                           savings_rate |-> Some(SavingsRate(summary))])

\* the dict with one zero item per category of the group type
ZeroCats(categories, group_type) ==
    [name \in {categories[i].name :
                  i \in {j \in DOMAIN categories :
                            categories[j].group.type = group_type}} |-> 0]

\* the loop over cashflow["byCategory"]: every entry of the group type is
\* added, with the sign given, to the item of its category; ok is FALSE
\* when an entry's category has no item
RECURSIVE AddByCategory(_, _, _, _)
AddByCategory(cats, by_category, group_type, sign) ==
    IF by_category = << >> THEN [ok |-> TRUE, cats |-> cats]
    ELSE LET c == Head(by_category)
             category == c.groupBy.category
         IN  IF category.group.type # group_type
             THEN AddByCategory(cats, Tail(by_category), group_type, sign)
             ELSE IF category.name \notin DOMAIN cats
             THEN [ok |-> FALSE, cats |-> cats]
             ELSE AddByCategory(
                      [cats EXCEPT ![category.name] = @ + sign * c.summary.sum],
                      Tail(by_category), group_type, sign)

\* what the income and the expense sensor share: the group type they
\* select and the sign they give its amounts
GroupUpdate(self, data_, group_type, field, sign) ==
    LET cashflow == Get(data_, "cashflow", EmptyDict)
        added == AddByCategory(
                     ZeroCats(Get(data_, "categories", << >>), group_type),
                     Get(cashflow, "byCategory", << >>), group_type, sign)
    IN  IF ~added.ok THEN Raised(self, "KeyError")
        ELSE IF "summary" \notin DOMAIN cashflow
        THEN Raised(self, "AttributeError")
        ELSE IF cashflow.summary = << >>
        THEN Raised(self, "IndexError")
        ELSE Written(self, Some(sign * cashflow.summary[1].summary[field]),
                     [categories |-> added.cats])

\* MonarchMoneyIncomeSensor._handle_coordinator_update
IncomeUpdate(self, data_) ==
    GroupUpdate(self, data_, "income", "sumIncome", 1)

\* MonarchMoneyExpenseSensor._handle_coordinator_update
ExpenseUpdate(self, data_) ==
    GroupUpdate(self, data_, "expense", "sumExpense", -1)

\* ---- the snapshots the sensors are given
MaxAccounts == 2

Account(id, balance, type_name, updatedAt, credential, flags) ==
    [id |-> id, displayName |-> id, displayBalance |-> balance,
     type |-> [name |-> type_name], updatedAt |-> updatedAt,
     credential |-> credential,
     isAsset |-> flags[1], includeInNetWorth |-> flags[2],
     isHidden |-> flags[3]]

Bank == Some([institution |-> [name |-> "Bank"]])

\* accounts as get_accounts returns them: an asset of 100.00, a card owing
\* 25.50, a hidden card left out of the net worth, a manual account whose
\* balance is null, and a cash account of 2.50 left out of the net worth
AccountPool ==
    {Account("a1", Some(10000), "brokerage", StartTime - 30, Bank,
             <<TRUE, TRUE, FALSE>>),
     Account("a2", Some(2550), "credit", StartTime - 7200, Bank,
             <<FALSE, TRUE, FALSE>>),
     Account("a3", Some(5000), "credit", StartTime - 90000, Bank,
             <<FALSE, FALSE, TRUE>>),
     Account("a4", None, "brokerage", StartTime - 60, None,
             <<TRUE, TRUE, FALSE>>),
     Account("a5", Some(250), "depository", StartTime - 180000, None,
             <<TRUE, FALSE, FALSE>>)}

\* the lists of at most n accounts with different ids
RECURSIVE AccountLists(_)
AccountLists(n) ==
    IF n = 0 THEN {<< >>}
    ELSE LET shorter == AccountLists(n - 1)
         IN  shorter \cup
             {Append(l, a) : <<l, a>> \in
                 {p \in shorter \X AccountPool :
                     \A i \in DOMAIN p[1] : p[1][i].id # p[2].id}}

Category(name, group_type) == [name |-> name, group |-> [type |-> group_type]]

ByCategory(name, group_type, sum) ==
    [groupBy |-> [category |-> Category(name, group_type)],
     summary |-> [sum |-> sum]]

Summary(sumIncome, sumExpense, savings, savingsRate) ==
    <<[summary |-> [sumIncome |-> sumIncome, sumExpense |-> sumExpense,
                    savings |-> savings, savingsRate |-> savingsRate]]>>

CategoryLists ==
    {<< >>,
     <<Category("Salary", "income"), Category("Food", "expense"),
       Category("Gifts", "income")>>}

\* what get_cashflow gave: nothing (the coordinator stores {}), a month
\* with income 5000.00, expense -3000.00, savings 2000.00 at rate 0.4, and
\* a month without income
Cashflows ==
    {EmptyDict,
     [summary |-> Summary(500000, -300000, 200000, 4000),
      byCategory |-> <<ByCategory("Salary", "income", 500000),
                       ByCategory("Food", "expense", -300000)>>],
     [summary |-> Summary(0, -1250, -1250, 0),
      byCategory |-> <<ByCategory("Food", "expense", -1000),
                       ByCategory("Food", "expense", -250)>>],
     [summary |-> Summary(0, 0, 0, 0), byCategory |-> << >>]}

\* the categories the cashflow names are categories of the snapshot
Consistent(categories, cashflow) ==
    LET by_category == Get(cashflow, "byCategory", << >>)
    IN  \A i \in DOMAIN by_category :
            \E j \in DOMAIN categories :
                categories[j] = by_category[i].groupBy.category

Snapshots ==
    {s \in [accounts : AccountLists(MaxAccounts), categories : CategoryLists,
            cashflow : Cashflows] : Consistent(s.categories, s.cashflow)}

\* ---------------------------------------------------------- __init__.py
MaxEntries == 2

\* the entry ids of the host's config entries of this integration
EntryIds == 1..MaxEntries

PLATFORMS == <<"sensor">>

\* how the awaited coordinator.async_setup() ends: its only return is the
\* `return True` of line 111, and a failed first refresh is raised
SetupOutcomes == {"True", "raise"}

\* how the awaited async_forward_entry_unload of one platform ends
UnloadOutcomes == {"True", "False", "raise"}

NoHistory == [setup |-> "none", unloaded |-> FALSE]

\* nothing has been set up
NoRegistry ==
    /\ hass_data = {}
    /\ entry_state = [e \in EntryIds |-> "not_loaded"]
    /\ history = [e \in EntryIds |-> NoHistory]

\* async_reset: all(...) of the gathered results; an exception of a
\* platform's unload leaves gather
async_reset(outcomes) ==
    IF \E i \in DOMAIN outcomes : outcomes[i] = "raise" THEN "raise"
    ELSE IF \A i \in DOMAIN outcomes : outcomes[i] = "True" THEN "True"
    ELSE "False"

\* async_setup_entry, lines 16-21: the coordinator is stored under the
\* entry id and async_setup is awaited.  The host sets up an entry that is
\* not loaded, or retries one whose setup failed.
SetupEntry(entry_id) ==
    /\ entry_state[entry_id] \in {"not_loaded", "setup_error"}
    /\ hass_data' = hass_data \cup {entry_id}
    /\ entry_state' = [entry_state EXCEPT ![entry_id] = "setup_in_progress"]
    /\ UNCHANGED <<history, coordVars, flowVars, sensorVars>>

\* async_setup_entry, lines 21-24: async_setup has ended
SetupDone(entry_id) ==
    /\ entry_state[entry_id] = "setup_in_progress"
    /\ \E outcome \in SetupOutcomes :
          LET ret == IF outcome = "raise" THEN "raise"
                     ELSE IF outcome # "True" THEN "False" ELSE "True"
          IN /\ entry_state' = [entry_state EXCEPT ![entry_id] =
                                   IF ret = "True" THEN "loaded"
                                   ELSE "setup_error"]
             /\ history' = [history EXCEPT ![entry_id] =
                               [setup |-> IF ret = "True" THEN "ok"
                                          ELSE "failed",
                                unloaded |-> FALSE]]
    /\ UNCHANGED <<hass_data, coordVars, flowVars, sensorVars>>

\* async_unload_entry, lines 29-30: the host unloads a loaded entry; the
\* coordinator is looked up and async_reset is awaited
UnloadEntry(entry_id) ==
    /\ entry_state[entry_id] = "loaded"
    /\ entry_id \in hass_data
    /\ entry_state' = [entry_state EXCEPT ![entry_id] = "unload_in_progress"]
    /\ UNCHANGED <<hass_data, history, coordVars, flowVars, sensorVars>>

\* async_unload_entry, lines 30-34: async_reset has ended
UnloadDone(entry_id) ==
    /\ entry_state[entry_id] = "unload_in_progress"
    /\ \E outcomes \in [DOMAIN PLATFORMS -> UnloadOutcomes] :
          LET ok == async_reset(outcomes)
          IN /\ hass_data' = IF ok = "True" THEN hass_data \ {entry_id}
                             ELSE hass_data
             /\ entry_state' = [entry_state EXCEPT ![entry_id] =
                                   IF ok = "True" THEN "not_loaded"
                                   ELSE "failed_unload"]
             /\ history' = [history EXCEPT ![entry_id].unloaded =
                               @ \/ ok = "True"]
    /\ UNCHANGED <<coordVars, flowVars, sensorVars>>

NextRegistry ==
    \/ \E entry_id \in EntryIds : SetupEntry(entry_id)
    \/ \E entry_id \in EntryIds : SetupDone(entry_id)
    \/ \E entry_id \in EntryIds : UnloadEntry(entry_id)
    \/ \E entry_id \in EntryIds : UnloadDone(entry_id)

\* no sensor platform has been set up
NoPlatform ==
    /\ update_data = EmptyDict
    /\ sensors = [name \in Range(Listeners) |-> NewSensor(name)]
    /\ listener = 0

\* the coordinator calls the next listener
Called(self) ==
    /\ sensors' = [sensors EXCEPT ![Listeners[listener]] = self]
    /\ listener' = listener + 1
    /\ UNCHANGED <<update_data, coordVars, flowVars, registryVars>>

UpdateCategory ==
    /\ listener \in DOMAIN Listeners
    /\ Listeners[listener] \in Range(Categories)
    /\ Called(CategoryUpdate(sensors[Listeners[listener]],
                             Listeners[listener], update_data, now))

UpdateNetWorth ==
    /\ listener \in DOMAIN Listeners
    /\ Listeners[listener] = "Net Worth"
    /\ Called(NetWorthUpdate(sensors["Net Worth"], update_data))

UpdateCashFlow ==
    /\ listener \in DOMAIN Listeners
    /\ Listeners[listener] = "Cash Flow"
    /\ Called(CashFlowUpdate(sensors["Cash Flow"], update_data))

UpdateIncome ==
    /\ listener \in DOMAIN Listeners
    /\ Listeners[listener] = "Income"
    /\ Called(IncomeUpdate(sensors["Income"], update_data))

UpdateExpense ==
    /\ listener \in DOMAIN Listeners
    /\ Listeners[listener] = "Expense"
    /\ Called(ExpenseUpdate(sensors["Expense"], update_data))

NextSensor ==
    \/ UpdateCategory
    \/ UpdateNetWorth
    \/ UpdateCashFlow
    \/ UpdateIncome
    \/ UpdateExpense

\* ---------------------------------------------------------------- actions
\* entries are created by the config flow only after a login with the
\* submitted email and password succeeded
K_Secret == <<"K", "7">>
Entries == {[email |-> "user@example.com", password |-> "secret"],
            [email |-> "user@example.com", password |-> "secret",
             mfa_secret |-> K_Secret]}

\* what get_subscription_details can raise: a session the remote side still
\* accepts fails only for reasons other than authentication
ValidateErrors(live) ==
    IF live = "live" THEN {e \in RemoteErrors : ErrClass(e) = "other"}
    ELSE RemoteErrors

\* what login can raise: the remote side answers with the MFA challenge
\* only when the call carries no mfa_secret_key
LoginErrors(key) ==
    IF key = << >> THEN RemoteErrors
    ELSE {e \in RemoteErrors : e.type # "RequireMFAException"}

SaveError == [type |-> "Exception", msg |-> M_Empty]

Init ==
    /\ now = StartTime
    /\ options \in OptionSets
    /\ update_interval = Get(options, "scan_interval", DEFAULT_SCAN_INTERVAL)
    /\ timeout_ = Get(options, "timeout", DEFAULT_TIMEOUT)
    /\ entry_data \in Entries
    /\ api = 0
    /\ auth_lock = Free
    /\ last_auth_attempt = 0
    /\ saved_session = 0
    /\ data = NoData
    /\ setup_state = "loading"
    /\ session_loaded = FALSE
    /\ pc = [t \in Tasks |-> IF t = SetupTask THEN "load_session" ELSE "idle"]
    /\ pass = [t \in Tasks |-> 0]
    /\ local = [t \in Tasks |-> EmptyData]
    /\ callApi = [t \in Tasks |-> 0]
    /\ fresh = [t \in Tasks |-> 0]
    /\ deadline = [t \in Tasks |-> NoDeadline]
    /\ result = [t \in Tasks |-> "none"]
    /\ errClass = [t \in Tasks |-> "none"]
    /\ authCalls = [t \in Tasks |-> 0]
    /\ authRec = [t \in Tasks |-> NoAuth]
    /\ loginLog = << >>
    /\ loginsBeforeRefresh = -1
    /\ validation = NoValidation
    /\ started = [t \in Tasks |-> NotStarted]
    /\ cause = [t \in Tasks |-> "none"]
    /\ config_entries = <<entry_data>>
    /\ FlowIdle
    /\ NoPlatform
    /\ NoRegistry

\* time passes
Advance(ticks) ==
    \E d \in TickSteps :
        /\ now + d <= StartTime + ticks * d
        /\ Becomes([St EXCEPT !.now = now + d])

Tick == Advance(MaxTicks)

TickOverlap == Advance(MaxTicksOverlap)

\* line 79 returned: the validation call of line 117 is issued
LoadSessionReturn ==
    /\ pc[SetupTask] = "load_session"
    /\ Becomes(ValidateIssue(St, SetupTask))

\* line 79 raised
LoadSessionRaise ==
    /\ pc[SetupTask] = "load_session"
    /\ Becomes(AfterLoadFailed(St, SetupTask))

\* get_subscription_details returned
ValidateReturn ==
    /\ pc[SetupTask] = "validate"
    /\ Becomes(AfterValidate(St, SetupTask, Returns, "live"))

\* get_subscription_details raised
ValidateRaise ==
    /\ pc[SetupTask] = "validate"
    /\ \E live \in {"live", "revoked"} : \E e \in ValidateErrors(live) :
          Becomes(AfterValidate(St, SetupTask, e, live))

\* the host starts a refresh (scheduled tick or requested refresh)
Refresh ==
    /\ setup_state = "ready"
    /\ \A t \in Tasks : pc[t] = "idle"
    /\ Becomes(BeginCycle(St, SetupTask))

\* a refresh starts while another one is running
RefreshOverlap ==
    /\ setup_state = "ready"
    /\ \E t \in Tasks : pc[t] = "idle"
    /\ \E t \in Tasks : pc[t] # "idle"
    /\ Becomes(BeginCycle(St, CHOOSE t \in Tasks : pc[t] = "idle"))

FetchReturn(t) ==
    /\ pc[t] \in FetchSet
    /\ ~Expired(St, t)
    /\ Becomes(FetchOk(St, t))

FetchRaise(t) ==
    /\ pc[t] \in FetchSet
    /\ ~Expired(St, t)
    /\ \E e \in RemoteErrors : Becomes(FetchFail(St, t, e))

\* the task suspended at line 125 gets the released lock
LockAcquired(t) ==
    /\ pc[t] = "auth_wait"
    /\ auth_lock = Free
    /\ ~Expired(St, t)
    /\ Becomes(AuthLocked(St, t))

LoginReturn(t) ==
    /\ pc[t] = "login"
    /\ ~Expired(St, t)
    /\ Becomes(LoginOk(St, t))

LoginRaise(t) ==
    /\ pc[t] = "login"
    /\ ~Expired(St, t)
    /\ \E e \in LoginErrors(authRec[t].key) : Becomes(LoginFail(St, t, e))

SaveReturn(t) ==
    /\ pc[t] = "save_session"
    /\ ~Expired(St, t)
    /\ Becomes(SaveOk(St, t))

SaveRaise(t) ==
    /\ pc[t] = "save_session"
    /\ ~Expired(St, t)
    /\ Becomes(SaveFail(St, t, SaveError, FALSE))

Timeout(t) ==
    /\ pc[t] \in FetchSet \cup {"auth_wait", "login", "save_session"}
    /\ Expired(St, t)
    /\ \E written \in BOOLEAN :
          /\ (written => pc[t] = "save_session")
          /\ Becomes(TimedOut(St, t, written))

Step ==
    \/ LoadSessionReturn
    \/ LoadSessionRaise
    \/ ValidateReturn
    \/ ValidateRaise
    \/ Refresh
    \/ \E t \in Tasks : FetchReturn(t)
    \/ \E t \in Tasks : FetchRaise(t)
    \/ \E t \in Tasks : LoginReturn(t)
    \/ \E t \in Tasks : LoginRaise(t)
    \/ \E t \in Tasks : SaveReturn(t)
    \/ \E t \in Tasks : SaveRaise(t)
    \/ \E t \in Tasks : Timeout(t)

\* the host runs one refresh at a time
Next == Tick \/ Step

Spec == Init /\ [][Next]_vars

\* refreshes may overlap
NextOverlap ==
    \/ TickOverlap
    \/ Step
    \/ RefreshOverlap
    \/ \E t \in Tasks : LockAcquired(t)

\* overlapping refreshes are explored with the largest timeout, which lets
\* a login hold the auth lock longest
InitOverlap ==
    /\ Init
    /\ timeout_ = VALUES_TIMEOUT[Len(VALUES_TIMEOUT)]
    /\ "mfa_secret" \notin DOMAIN entry_data

SpecOverlap == InitOverlap /\ [][NextOverlap]_vars

\* ---- two refreshes in flight
\* async_setup has finished with the stored session found valid and the
\* first refresh published; the default options are in force and one tick
\* of time is left
Ready ==
    [now |-> StartTime
               + (MaxTicksOverlap - 1) * (CHOOSE d \in TickSteps : TRUE),
     options |-> NoOptions,
     update_interval |-> DEFAULT_SCAN_INTERVAL,
     timeout_ |-> DEFAULT_TIMEOUT,
     entry_data |-> CHOOSE d \in Entries : "mfa_secret" \notin DOMAIN d,
     api |-> 0, auth_lock |-> Free, last_auth_attempt |-> 0,
     saved_session |-> 0,
     data |-> [accounts |-> [api |-> 0, pass |-> 1],
               categories |-> [api |-> 0, pass |-> 1],
               cashflow |-> [api |-> 0, pass |-> 1], published |-> TRUE],
     setup_state |-> "ready", session_loaded |-> TRUE,
     pc |-> [t \in Tasks |-> "idle"],
     pass |-> [t \in Tasks |-> IF t = SetupTask THEN 1 ELSE 0],
     local |-> [t \in Tasks |-> EmptyData],
     callApi |-> [t \in Tasks |-> 0],
     fresh |-> [t \in Tasks |-> 0],
     deadline |-> [t \in Tasks |-> NoDeadline],
     result |-> [t \in Tasks |-> IF t = SetupTask THEN "Snapshot" ELSE "none"],
     errClass |-> [t \in Tasks |-> "none"],
     authCalls |-> [t \in Tasks |-> 0],
     authRec |-> [t \in Tasks |-> NoAuth],
     loginLog |-> << >>,
     loginsBeforeRefresh |-> 0,
     validation |-> [calls |-> 1, live |-> "live", raised |-> FALSE,
                     ret |-> "True", before |-> <<0, 0, Free, 0>>,
                     after |-> <<0, 0, Free, 0>>],
     started |-> [t \in Tasks |-> NotStarted],
     cause |-> [t \in Tasks |-> "none"]]

\* the host has started a refresh and, while it runs, a second one
InitLock ==
    /\ LET s == BeginCycle(BeginCycle(Ready, SetupTask),
                           CHOOSE t \in Tasks : t # SetupTask)
       IN  /\ now = s.now
           /\ options = s.options
           /\ update_interval = s.update_interval
           /\ timeout_ = s.timeout_
           /\ entry_data = s.entry_data
           /\ api = s.api
           /\ auth_lock = s.auth_lock
           /\ last_auth_attempt = s.last_auth_attempt
           /\ saved_session = s.saved_session
           /\ data = s.data
           /\ setup_state = s.setup_state
           /\ session_loaded = s.session_loaded
           /\ pc = s.pc
           /\ pass = s.pass
           /\ local = s.local
           /\ callApi = s.callApi
           /\ fresh = s.fresh
           /\ deadline = s.deadline
           /\ result = s.result
           /\ errClass = s.errClass
           /\ authCalls = s.authCalls
           /\ authRec = s.authRec
           /\ loginLog = s.loginLog
           /\ loginsBeforeRefresh = s.loginsBeforeRefresh
           /\ validation = s.validation
           /\ started = s.started
           /\ cause = s.cause
    /\ config_entries = <<entry_data>>
    /\ FlowIdle
    /\ NoPlatform
    /\ NoRegistry

\* a waiter woken by the release of the lock runs in the event loop's next
\* iteration: no time passes while the lock is free and a caller waits
TickLock ==
    /\ ~\E t \in Tasks : pc[t] = "auth_wait" /\ auth_lock = Free
    /\ TickOverlap

\* the two cycles run to their end; the host starts no further refresh
NextLock ==
    \/ TickLock
    \/ \E t \in Tasks : FetchReturn(t)
    \/ \E t \in Tasks : FetchRaise(t)
    \/ \E t \in Tasks : LockAcquired(t)
    \/ \E t \in Tasks : LoginReturn(t)
    \/ \E t \in Tasks : LoginRaise(t)
    \/ \E t \in Tasks : SaveReturn(t)
    \/ \E t \in Tasks : SaveRaise(t)
    \/ \E t \in Tasks : Timeout(t)

\* what the event loop gives a task: the call it awaits returns, raises or
\* is cancelled by the cycle's timeout, and a task that can get the lock
\* is run
TaskStep(t) ==
    \/ FetchReturn(t) \/ FetchRaise(t) \/ LockAcquired(t)
    \/ LoginReturn(t) \/ LoginRaise(t)
    \/ SaveReturn(t) \/ SaveRaise(t) \/ Timeout(t)

SpecLock ==
    /\ InitLock /\ [][NextLock]_vars
    /\ \A t \in Tasks : WF_vars(TaskStep(t))

\* the coordinator before async_setup has taken a step, and no flow open
CoordinatorAtRest ==
    /\ options = NoOptions
    /\ update_interval = Get(options, "scan_interval", DEFAULT_SCAN_INTERVAL)
    /\ timeout_ = Get(options, "timeout", DEFAULT_TIMEOUT)
    /\ now = StartTime /\ api = 0 /\ auth_lock = Free
    /\ last_auth_attempt = 0 /\ saved_session = 0 /\ data = NoData
    /\ setup_state = "loading" /\ session_loaded = FALSE
    /\ pc = [t \in Tasks |-> "idle"]
    /\ pass = [t \in Tasks |-> 0]
    /\ local = [t \in Tasks |-> EmptyData]
    /\ callApi = [t \in Tasks |-> 0]
    /\ fresh = [t \in Tasks |-> 0]
    /\ deadline = [t \in Tasks |-> NoDeadline]
    /\ result = [t \in Tasks |-> "none"]
    /\ errClass = [t \in Tasks |-> "none"]
    /\ authCalls = [t \in Tasks |-> 0]
    /\ authRec = [t \in Tasks |-> NoAuth]
    /\ loginLog = << >>
    /\ loginsBeforeRefresh = -1
    /\ validation = NoValidation
    /\ started = [t \in Tasks |-> NotStarted]
    /\ cause = [t \in Tasks |-> "none"]
    /\ FlowIdle

\* the config flow on its own: the host holds no entry or one entry, and
\* no coordinator step is taken
InitFlow ==
    /\ \E d \in Entries :
          /\ entry_data = d
          /\ config_entries \in {<< >>, <<d>>}
    /\ CoordinatorAtRest
    /\ NoPlatform
    /\ NoRegistry

SpecFlow == InitFlow /\ [][NextFlow]_vars

\* the sensor platform on its own: a refresh has published update_data and
\* the coordinator calls the listeners in turn
InitSensor ==
    /\ entry_data \in Entries
    /\ config_entries = <<entry_data>>
    /\ CoordinatorAtRest
    /\ update_data \in Snapshots
    /\ sensors = [name \in Range(Listeners) |-> NewSensor(name)]
    /\ listener = 1
    /\ NoRegistry

SpecSensor == InitSensor /\ [][NextSensor]_vars

\* ---- the entry points
InitRegistry ==
    /\ entry_data \in Entries
    /\ config_entries = <<entry_data>>
    /\ CoordinatorAtRest
    /\ NoPlatform
    /\ NoRegistry

SpecRegistry == InitRegistry /\ [][NextRegistry]_vars

TypeOK ==
    /\ now >= StartTime
    /\ timeout_ \in TimeoutOptions
    /\ update_interval \in Range(VALUES_SCAN_INTERVAL)
    /\ auth_lock \in Tasks \cup {Free}
    /\ \A t \in Tasks : pc[t] \in FetchSet \cup {"idle", "load_session",
                          "validate", "auth_wait", "login", "save_session"}
    /\ listener \in 0..(Len(Listeners) + 1)
    /\ DOMAIN sensors = Range(Listeners)
    /\ hass_data \subseteq EntryIds
    /\ \A entry_id \in EntryIds :
          entry_state[entry_id] \in {"not_loaded", "setup_in_progress",
               "loaded", "setup_error", "unload_in_progress", "failed_unload"}

\* ------------------------------------------------------------- properties
InCycle(t) == result[t] # "none"
Ended(t) == result[t] \notin {"none", "running"}
DataKeys == {"accounts", "categories", "cashflow"}

\* C1: a snapshot is published only if get_accounts,
\* get_transaction_categories and get_cashflow all returned in one and the
\* same pass of the cycle; a cycle that returns no snapshot ends in
\* UpdateFailed or ConfigEntryAuthFailed, and what is published is never a
\* partially filled dict.
C1_SnapshotNeedsAllThree ==
    /\ data.published =>
          \E p \in {1, 2} : \A k \in DataKeys : data[k].pass = p
    /\ \A t \in Tasks :
          /\ result[t] = "Snapshot" =>
                /\ data.published
                /\ \A k \in DataKeys : data[k].pass = pass[t]
          /\ (Ended(t) /\ result[t] # "Snapshot") =>
                result[t] \in {"UpdateFailed", "ConfigEntryAuthFailed"}

C1_Witness ==
    \E t \in Tasks : result[t] = "Snapshot" /\ pass[t] = 2 /\ data.published

\* C2: a cycle calls _authenticate_with_credentials at most once and runs at
\* most two fetch passes; an authentication error raised by a fetch makes it
\* call the re-authentication exactly once; a successful re-authentication
\* starts the retry pass, which runs the sequence from get_accounts; an
\* authentication error in the retry pass starts no second
\* re-authentication.
C2_OneReauthOneRetry ==
    \A t \in Tasks : InCycle(t) =>
        /\ authCalls[t] <= 1
        /\ pass[t] \in {1, 2}
        /\ errClass[t] = "auth" => authCalls[t] = 1
        /\ pass[t] = 2 <=> authRec[t].ret = "True"
        /\ (pass[t] = 2 /\ pc[t] = "get_accounts") =>
              \A k \in DataKeys : local[t][k].pass # 2
        /\ (pass[t] = 2 /\ pc[t] = "get_transaction_categories") =>
              local[t].accounts.pass = 2 /\ local[t].categories.pass # 2
        /\ (pass[t] = 2 /\ pc[t] = "get_cashflow") =>
              /\ local[t].accounts.pass = 2
              /\ local[t].categories.pass = 2
              /\ local[t].cashflow.pass # 2

C2_Witness ==
    \E t \in Tasks :
        /\ result[t] = "ConfigEntryAuthFailed"
        /\ pass[t] = 2
        /\ errClass[t] = "auth"
        /\ authCalls[t] = 1

\* C3: when the re-authentication of a cycle returns False, the cycle ends
\* at once in ConfigEntryAuthFailed: it leaves _async_update_data as
\* ConfigEntryAuthFailed and no fetch is issued after it.
C3_ReauthFailureIsAuthFailure ==
    \A t \in Tasks : (InCycle(t) /\ authRec[t].ret = "False") =>
        /\ result[t] = "ConfigEntryAuthFailed"
        /\ pc[t] = "idle"
        /\ pass[t] = 1

C3_Witness ==
    \E t \in Tasks :
        /\ InCycle(t)
        /\ authRec[t].ret = "False"
        /\ authRec[t].login = "failed"
        /\ result[t] = "ConfigEntryAuthFailed"

\* C4: a cycle whose last fetch error is a non-auth error (neither
\* RequireMFAException nor a message matching the test of lines 264-268)
\* ends in UpdateFailed, in the first pass and in the retry pass alike.
C4_NonAuthErrorIsFetchFailure ==
    \A t \in Tasks : (Ended(t) /\ errClass[t] = "other") =>
        result[t] = "UpdateFailed"

\* C5: a cycle leaves _async_update_data by returning the snapshot, as
\* UpdateFailed or as ConfigEntryAuthFailed, whatever the remote calls, the
\* re-authentication, the session save and the timeout did.
C5_ThreeOutcomes ==
    \A t \in Tasks :
        result[t] \in {"none", "running", "Snapshot", "UpdateFailed",
                       "ConfigEntryAuthFailed"}

C5_Witness ==
    \E t \in Tasks :
        /\ result[t] = "UpdateFailed"
        /\ authRec[t].ret = "cancelled"
        /\ authRec[t].login = "cancelled"

\* C6: the times (time.time() read at line 127) of any two login calls are
\* at least 60 seconds apart, and a call of _authenticate_with_credentials
\* that reads a time less than 60 seconds after a login call was issued
\* returns False without issuing a login call.
C6_RateLimit ==
    /\ \A i, j \in DOMAIN loginLog :
          i < j => loginLog[j] - loginLog[i] >= RateLimitWindow
    /\ \A t \in Tasks :
          (/\ authRec[t].at # -1
           /\ authRec[t].prev # -1
           /\ authRec[t].at - authRec[t].prev < RateLimitWindow) =>
              authRec[t].login = "skipped" /\ authRec[t].ret = "False"

C6_Witness ==
    /\ Len(loginLog) >= 2
    /\ \E t \in Tasks : authRec[t].login = "skipped" /\ authRec[t].ret = "False"

LoginsInFlight == {t \in Tasks : pc[t] = "login"}

C8_FailureKeepsHandle ==
    \A t \in Tasks :
        authRec[t].ret = "False" => authRec[t].after = authRec[t].before

\* C9: when save_session raises after a successful login,
\* _authenticate_with_credentials still returns True and the cycle does not
\* end in ConfigEntryAuthFailed because of it.
C9_SaveFailureNotPropagated ==
    \A t \in Tasks : authRec[t].save = "failed" =>
        /\ authRec[t].ret = "True"
        /\ (InCycle(t) => pass[t] = 2)

C11_ValidateReturnsBoolean ==
    /\ validation.calls <= 1
    /\ validation.ret \in {"none", "True", "False"}
    /\ validation.ret # "none" =>
          /\ validation.calls = 1
          /\ validation.ret = "False" <=> validation.raised
    /\ pc[SetupTask] = "validate" =>
          /\ validation.calls = 1
          /\ \A o \in ValidateOutcomes :
                ValidateSession(o[1]) =
                    IF o[1].type = "return" THEN "True" ELSE "False"

C11_Witness ==
    /\ validation.calls = 1
    /\ validation.raised
    /\ validation.ret = "False"
    /\ setup_state = "authenticating"

\* C12: _validate_session leaves self._api, self._last_auth_attempt, the
\* auth lock and the session file as they were when its call was issued,
\* and a second call with the same outcome of the remote call gives the
\* same result and again changes none of them.
C12_ValidateNoSideEffects ==
    /\ validation.ret # "none" => validation.after = validation.before
    /\ pc[SetupTask] = "validate" =>
          \A o \in ValidateOutcomes :
              LET s1 == ValidateDone(St, o[1], o[2])
                  s2 == ValidateDone(s1, o[1], o[2])
              IN /\ Frame(s1) = Frame(St)
                 /\ Frame(s2) = Frame(St)
                 /\ s2.validation.ret = s1.validation.ret

C12_Witness ==
    /\ validation.ret = "True"
    /\ validation.before = <<0, 0, Free, 0>>
    /\ validation.after = validation.before
    /\ now > StartTime

\* C13 (as claimed): the validation of a loaded session gives True exactly
\* when the remote side has not revoked the session.
C13_TrueIffNotRevoked ==
    validation.ret # "none" =>
        (validation.ret = "True" <=> validation.live = "live")

\* C13 (amended): the validation of a loaded session gives True only for a
\* session the remote side has not revoked, and False for every revoked
\* one; session_loaded is set only for a session that is not revoked.  A
\* live session whose validation call fails is reported invalid.
C13_TrueOnlyIfNotRevoked ==
    /\ validation.ret = "True" => validation.live = "live"
    /\ validation.live = "revoked" => validation.ret = "False"
    /\ session_loaded => validation.ret = "True" /\ validation.live = "live"

C13_Witness ==
    /\ validation.live = "live"
    /\ validation.ret = "False"
    /\ ~session_loaded
    /\ loginLog # << >>

\* C18 (as claimed): without options the coordinator polls every 21600 s
\* and bounds a cycle with 30 s, both being allowed values.
C18_DefaultsSixHours ==
    options = NoOptions =>
        /\ update_interval = 21600
        /\ timeout_ = 30
        /\ update_interval \in Range(VALUES_SCAN_INTERVAL)
        /\ timeout_ \in Range(VALUES_TIMEOUT)

\* C18 (amended): without options the coordinator polls every 3600 s (one
\* hour) and bounds each cycle with 30 s; both defaults are members of
\* their lists of allowed values; stored options replace them.
C18_DefaultsOneHour ==
    /\ DEFAULT_SCAN_INTERVAL \in Range(VALUES_SCAN_INTERVAL)
    /\ DEFAULT_TIMEOUT \in Range(VALUES_TIMEOUT)
    /\ options = NoOptions =>
          /\ update_interval = 3600
          /\ timeout_ = 30
          /\ \A t \in Tasks :
                result[t] = "running" => deadline[t] = started[t] + 30
    /\ options # NoOptions =>
          /\ update_interval = options.scan_interval
          /\ timeout_ = options.timeout

C18_Witness ==
    /\ options = NoOptions
    /\ update_interval = 3600
    /\ \E t \in Tasks :
          result[t] = "running" /\ deadline[t] = started[t] + 30

\* C20: one timeout covers the whole cycle: from the start of the cycle to
\* its end, through both fetch passes and the re-authentication, the
\* deadline is the start time plus the configured timeout; a cycle that the
\* timeout ends leaves as UpdateFailed, publishes nothing, and no ended or
\* waiting task holds the auth lock.
C20_TimeoutPerCycle ==
    \A t \in Tasks :
        /\ result[t] = "running" =>
              /\ started[t] # NotStarted
              /\ deadline[t] = started[t] + timeout_
        /\ cause[t] = "TimeoutError" =>
              /\ result[t] = "UpdateFailed"
              /\ pc[t] = "idle"
        /\ auth_lock = t => pc[t] \in {"login", "save_session"}

C20_Witness ==
    \E t \in Tasks :
        /\ cause[t] = "TimeoutError"
        /\ result[t] = "UpdateFailed"
        /\ pass[t] = 2
        /\ auth_lock = Free

\* a login call was issued by the task's _authenticate_with_credentials
LoginIssued(t) == authRec[t].login \in {"pending", "ok", "failed", "mfa",
                                        "cancelled"}

\* C14: the secret of the entry, when there is one that is not blank, is
\* handed (stripped) to the login call, and then the login never ends in the
\* MFA challenge; without a secret the call carries no key, and a login that
\* is answered with the challenge makes _authenticate_with_credentials
\* return False.  The config flow hands the secret of the form to its login
\* call in the same way and turns the challenge into RequireMFA.
C14_SecretAnswersChallenge ==
    /\ \A t \in Tasks : LoginIssued(t) =>
          /\ authRec[t].key = Strip(Get(entry_data, "mfa_secret", << >>))
          /\ authRec[t].key # << >> => authRec[t].login # "mfa"
          /\ authRec[t].login = "mfa" =>
                authRec[t].key = << >> /\ authRec[t].ret = "False"
    /\ \A form \in CredentialForms :
          FlowMfaKey(UpdateInput(EmptyDict, EmptyDict, form, "user")) =
              Strip(Get(form, "mfa_secret", << >>))
    /\ ConnectionExcept([type |-> "RequireMFAException", msg |-> M_MFA])
          = "RequireMFA"

C14_Witness ==
    \E t \in Tasks :
        /\ authRec[t].key = K_Secret
        /\ authRec[t].login = "ok"
        /\ authRec[t].ret = "True"
        /\ api = fresh[t]

\* the test of the submitted credentials failed at the login call or at
\* the get_accounts check
ConnectionTestFailed ==
    /\ test.step_id \in {"user", "reauth_confirm"}
    /\ test.stage \in {1, 2}

\* C15: whenever the login call or the get_accounts check of the flow fails
\* with a message containing "429" or "too many requests", whatever the
\* class of the exception, the test raises RateLimited and the same step is
\* shown again with the error rate_limited.
C15_RateLimitSignalIsRateLimited ==
    (ConnectionTestFailed /\ IsRateLimitSignal(Lower(test.err.msg))) =>
        /\ test.raised = "RateLimited"
        /\ shown = Form(test.step_id, "rate_limited")

\* a rejection that is neither the MFA challenge nor a rate-limit signal
\* and does not mention MFA
PlainRejection(e) ==
    /\ e.type # "RequireMFAException"
    /\ ~IsRateLimitSignal(Lower(e.msg))
    /\ ~Contains(Lower(e.msg), S_mfa)
    /\ ~Contains(Lower(e.msg), S_multi_factor)

\* C16: a rejection of the login that is neither the MFA challenge nor a
\* rate-limit signal (for example "401" or "Unauthorized" without any
\* mention of MFA) raises InvalidAuth, and the same step is shown again with
\* the error invalid_auth, not the MFA step.
C16_PlainRejectionIsInvalidAuth ==
    (ConnectionTestFailed /\ test.stage = 1 /\ PlainRejection(test.err)) =>
        /\ test.raised = "InvalidAuth"
        /\ shown = Form(test.step_id, "invalid_auth")

\* the message matches an MFA substring and a rate-limit substring
MatchesBoth(msg) == IsMfaHint(Lower(msg)) /\ IsRateLimitSignal(Lower(msg))

\* C17 (as claimed): an error whose message matches both an MFA substring
\* and a rate-limit substring is classified RequireMFA.
C17_MfaFirst ==
    (ConnectionTestFailed /\ MatchesBoth(test.err.msg)) =>
        test.raised = "RequireMFA"

\* C17 (amended): RequireMFAException is RequireMFA whatever its message;
\* for a LoginFailedException the rate-limit substrings are tested first,
\* so a message matching both kinds is RateLimited; for every other
\* exception only the MFA substrings are tested, so such a message is
\* RequireMFA; a message matching neither kind is InvalidAuth.
C17_Precedence ==
    ConnectionTestFailed =>
        LET e == test.err
            rate == IsRateLimitSignal(Lower(e.msg))
            mfa == IsMfaHint(Lower(e.msg))
        IN /\ e.type = "RequireMFAException" => test.raised = "RequireMFA"
           /\ (e.type = "LoginFailedException" /\ rate) =>
                 test.raised = "RateLimited"
           /\ (e.type = "LoginFailedException" /\ ~rate /\ mfa) =>
                 test.raised = "RequireMFA"
           /\ (e.type = "Exception" /\ mfa) => test.raised = "RequireMFA"
           /\ (e.type # "RequireMFAException" /\ ~rate /\ ~mfa) =>
                 test.raised = "InvalidAuth"

C17_Witness ==
    /\ ConnectionTestFailed
    /\ test.err = [type |-> "LoginFailedException", msg |-> M_Both]
    /\ test.raised = "RateLimited"
    /\ shown = Form(test.step_id, "rate_limited")

\* C21: in a cycle that returned a snapshot the three published datasets
\* were all fetched in the pass that returned, on the handle in use; when
\* the cycle re-authenticated that pass is the retry pass and the handle is
\* the one of the cycle's login; what is published never combines datasets
\* of two passes or two handles.
C21_SnapshotFromOnePass ==
    /\ data.published =>
          \E p \in {1, 2} : \E h \in 0..Len(loginLog) :
              \A k \in DataKeys : data[k] = [pass |-> p, api |-> h]
    /\ \A t \in Tasks : result[t] = "Snapshot" =>
          /\ \A k \in DataKeys : data[k] = [pass |-> pass[t], api |-> api]
          /\ authCalls[t] = 0 => pass[t] = 1
          /\ authCalls[t] = 1 =>
                /\ pass[t] = 2
                /\ api = Len(loginLog)
                /\ authRec[t].before # api

C21_Witness ==
    \E t \in Tasks :
        /\ result[t] = "Snapshot"
        /\ authCalls[t] = 1
        /\ Len(loginLog) = 2
        /\ \A k \in DataKeys : data[k] = [pass |-> 2, api |-> 2]

\* the session file is written in this step
SessionWritten == saved_session' # saved_session

\* C22: the session file is written only by the save_session job, which is
\* started only after the login on the fresh handle returned, and what is
\* written is the session of that handle; a login that raised or was
\* cancelled writes nothing.  In the config flow save_session is called
\* only in a course in which the login (or the MFA completion) and
\* get_accounts were called before it and returned.
C22_SavedOnlyAfterLogin ==
    /\ [](\A t \in Tasks : pc[t] = "save_session" =>
              authRec[t].login = "ok" /\ api = fresh[t])
    /\ [][SessionWritten =>
            \E t \in Tasks : /\ pc[t] = "save_session"
                             /\ authRec[t].login = "ok"
                             /\ saved_session' = fresh[t]]_vars
    /\ [](\A step_id \in {"user", "reauth_confirm", "mfa"} :
            \A course \in TestCourses :
                LET calls == CallsMade(step_id, course)
                IN "save_session" \in Range(calls) =>
                      /\ Len(calls) = 3
                      /\ calls[3] = "save_session"
                      /\ calls[2] = "get_accounts"
                      /\ course.stage \in {0, 3})

C22_Witness ==
    /\ saved_session = 2
    /\ api = 2
    /\ Len(loginLog) = 2

\* C30: a call of _authenticate_with_credentials made by a cycle less than
\* 60 seconds after the last login call was issued, whether that login
\* succeeded or failed and whether setup or a cycle made it, issues no
\* login, returns False, and the cycle ends in ConfigEntryAuthFailed.
C30_GuardCountsEveryAttempt ==
    \A t \in Tasks :
        (/\ InCycle(t)
         /\ authRec[t].at # -1
         /\ authRec[t].prev # -1
         /\ authRec[t].at - authRec[t].prev < RateLimitWindow) =>
            /\ authRec[t].login = "skipped"
            /\ authRec[t].prev = loginLog[Len(loginLog)]
            /\ errClass[t] = "auth"
            /\ result[t] = "ConfigEntryAuthFailed"

C30_Witness ==
    \E t \in Tasks :
        /\ result[t] = "ConfigEntryAuthFailed"
        /\ authRec[t].login = "skipped"
        /\ Len(loginLog) = 1
        /\ ~session_loaded
        /\ api = 0

\* the flow was started at the user step / by async_step_reauth
UserFlow == shown # NoForm /\ existing_entry = EmptyDict
ReauthFlow == existing_entry # EmptyDict

\* the test of the last submitted form failed
TestFailed == test.raised \notin {"none", "ok"}

\* C26: a flow started at the user step whose test succeeds, at the user
\* step or at the MFA step, ends by creating the entry titled with the
\* email.
C26_UserFlowCreatesEntry ==
    (UserFlow /\ test.raised = "ok") =>
        /\ shown = Finished("create_entry", user_input_.email)
        /\ test.effect = "created"
        /\ EntriesOf(config_entries, user_input_.email) # {}

\* C27: a failed test leaves the entries as they are and shows a form
\* again: the submitted step with rate_limited for RateLimited and with
\* invalid_auth for InvalidAuth; a failed test of the MFA code is RateLimited
\* or InvalidAuth only, so the flow stays on the mfa step; the only error
\* codes shown are rate_limited, invalid_auth and cannot_connect.
C27_FailedTestChangesNoEntry ==
    /\ [](TestFailed =>
            /\ shown.type = "form"
            /\ test.effect = "none"
            /\ test.raised = "RateLimited" =>
                  shown = Form(test.step_id, "rate_limited")
            /\ test.raised = "InvalidAuth" =>
                  shown = Form(test.step_id, "invalid_auth")
            /\ test.step_id = "mfa" =>
                  /\ test.raised \in {"RateLimited", "InvalidAuth"}
                  /\ shown.step_id = "mfa")
    /\ [](shown.type = "form" =>
            shown.errors \in {"none", "rate_limited", "invalid_auth",
                              "cannot_connect"})
    /\ [][TestFailed' => config_entries' = config_entries]_vars

C27_Witness ==
    /\ test.step_id = "mfa"
    /\ test.err.type = "Exception"
    /\ IsMfaHint(Lower(test.err.msg))
    /\ test.raised = "InvalidAuth"
    /\ shown = Form("mfa", "invalid_auth")

\* C28: in a re-auth flow there is one entry throughout, its email and the
\* email of self._user_input are the email of the entry the flow was
\* started for; when the test succeeds, at reauth_confirm or at the mfa
\* step, the entry's data becomes self._user_input, the entry is reloaded
\* and the flow aborts with reauth_successful.
C28_ReauthUpdatesEntry ==
    ReauthFlow =>
        /\ Len(config_entries) = 1
        /\ config_entries[1].email = existing_entry.email
        /\ unique_id = existing_entry.email
        /\ user_input_.email = existing_entry.email
        /\ test.raised = "ok" =>
              /\ shown = Finished("abort", "reauth_successful")
              /\ test.effect = "updated_reloaded"
              /\ config_entries[1] = user_input_

C28_Witness ==
    /\ ReauthFlow
    /\ test.step_id = "mfa"
    /\ test.raised = "ok"
    /\ test.effect = "updated_reloaded"
    /\ config_entries[1].mfa_code = "123456"

\* the data of the entry the flow stored
StoredData ==
    config_entries[CHOOSE i \in DOMAIN config_entries :
                       config_entries[i].email = unique_id]

\* C29: the data a flow stores holds an MFA secret exactly when the last
\* submitted credentials form carried a secret that is not blank, and then
\* it holds that secret stripped; self._user_input never holds a blank
\* secret, and a form without a secret removes the one held before.
C29_SecretFollowsLastForm ==
    /\ "mfa_secret" \in DOMAIN user_input_ =>
          /\ user_input_.mfa_secret # << >>
          /\ Strip(user_input_.mfa_secret) = user_input_.mfa_secret
    /\ test.step_id \in {"user", "reauth_confirm", "mfa"} =>
          (/\ "mfa_secret" \in DOMAIN user_input_ <=>
                  Strip(test.form_secret) # << >>
           /\ "mfa_secret" \in DOMAIN user_input_ =>
                  user_input_.mfa_secret = Strip(test.form_secret))
    /\ test.effect \in {"created", "updated_reloaded"} =>
          StoredData = user_input_

C29_Witness ==
    /\ ReauthFlow
    /\ "mfa_secret" \in DOMAIN existing_entry
    /\ test.effect = "updated_reloaded"
    /\ test.form_secret = << >>
    /\ "mfa_secret" \notin DOMAIN StoredData

\* ------------------------------------------------------ sensor properties
\* the listener of the sensor has been called for update_data
Handled(name) ==
    \E i \in DOMAIN Listeners : Listeners[i] = name /\ i < listener

\* the non-null balances of the accounts at the indices, added up
RECURSIVE SumAt(_, _)
SumAt(accounts, indices) ==
    IF indices = {} THEN 0
    ELSE LET i == CHOOSE j \in indices : TRUE
             balance == accounts[i].displayBalance
         IN  (IF balance = None THEN 0 ELSE balance[1])
                 + SumAt(accounts, indices \ {i})

\* units is the amount of cents rounded to a whole unit, a half going to
\* the even neighbour
IsRounded(units, cents) ==
    LET diff == 100 * units - cents
    IN  /\ -50 <= diff /\ diff <= 50
        /\ (diff = 50 \/ diff = -50) => units % 2 = 0

\* the accounts that are included in the net worth and not hidden
Contributing(accounts, isAsset) ==
    {i \in DOMAIN accounts :
        /\ accounts[i].includeInNetWorth
        /\ ~accounts[i].isHidden
        /\ accounts[i].isAsset = isAsset}

\* C23: once the net-worth sensor has handled a snapshot, its assets are
\* the (rounded) sum of the balances of the asset accounts that are
\* included in the net worth and not hidden, its liabilities the (rounded)
\* sum of the balances of the liability accounts that are included and not
\* hidden, and its value is assets - liabilities.
C23_NetWorthOfVisibleIncluded ==
    (Handled("Net Worth") /\ sensors["Net Worth"].written) =>
        LET accounts == update_data.accounts
            self == sensors["Net Worth"]
        IN  /\ IsRounded(self.attrs.assets[1],
                         SumAt(accounts, Contributing(accounts, TRUE)))
            /\ IsRounded(self.attrs.liabilities[1],
                         SumAt(accounts, Contributing(accounts, FALSE)))
            /\ self.state
                  = Some(self.attrs.assets[1] - self.attrs.liabilities[1])

\* the snapshot has a cashflow summary
HasSummary == "summary" \in DOMAIN update_data.cashflow

MatchingAccounts(category) ==
    {i \in DOMAIN update_data.accounts :
        update_data.accounts[i].type.name = SENSOR_TYPES_GROUP[category].type}

\* C25: once a category sensor has handled a snapshot, its value is the
\* rounded sum of the balances of exactly the accounts whose type name is
\* the sensor's account type, null balances skipped, it is 0 when no
\* account matches, and its attributes hold exactly one item per matching
\* account, keyed by the account's id.
C25_CategorySum ==
    \A category \in Range(Categories) :
        Handled(category) =>
            LET accounts == update_data.accounts
                matching == MatchingAccounts(category)
                self == sensors[category]
            IN  /\ self.state # None
                /\ IsRounded(self.state[1], SumAt(accounts, matching))
                /\ matching = {} => self.state = Some(0)
                /\ DOMAIN self.attrs = {accounts[i].id : i \in matching}
                /\ \A i \in matching :
                      /\ self.attrs[accounts[i].id].id = accounts[i].id
                      /\ self.attrs[accounts[i].id].balance
                            = accounts[i].displayBalance

\* the cash sensor has handled a snapshot with one cash account of 2.50 and
\* shows 2, and the investments sensor has skipped a null balance
C25_Witness ==
    /\ Handled("Cash")
    /\ MatchingAccounts("Cash") # {}
    /\ sensors["Cash"].state = Some(2)
    /\ \E i \in MatchingAccounts("Investments") :
          update_data.accounts[i].displayBalance = None
    /\ DOMAIN sensors["Investments"].attrs = {"a4"}
    /\ sensors["Investments"].state = Some(0)

\* a fetch call of the first pass raises an error of the class in this step
FirstPassRaised(t, class) ==
    /\ result[t] = "running" /\ pass[t] = 1 /\ pc[t] \in FetchSet
    /\ errClass[t] = "none" /\ errClass'[t] = class

\* C31: within a poll cycle _authenticate_with_credentials is called only
\* in the step in which a fetch call of the first pass raised a non-MFA
\* exception whose message matches the test of lines 264-268; a
\* RequireMFAException of the first pass ends the cycle in
\* ConfigEntryAuthFailed in that step and any other first-pass error ends
\* it in UpdateFailed, and these two steps make no login call and leave
\* self._api and self._last_auth_attempt as they were.
C31_ReauthOnlyOnAuthError ==
    [][\A t \in Tasks :
          /\ (result[t] = "running" /\ authCalls'[t] > authCalls[t]) =>
                FirstPassRaised(t, "auth")
          /\ \A class \in {"mfa", "other"} : FirstPassRaised(t, class) =>
                /\ pc'[t] = "idle"
                /\ result'[t] = (IF class = "mfa" THEN "ConfigEntryAuthFailed"
                                 ELSE "UpdateFailed")
                /\ authCalls'[t] = 0
                /\ loginLog' = loginLog
                /\ api' = api
                /\ last_auth_attempt' = last_auth_attempt]_vars

\* a cycle ended by a RequireMFAException of the first pass without any
\* call of _authenticate_with_credentials
C31_Witness ==
    \E t \in Tasks :
        /\ result[t] = "ConfigEntryAuthFailed"
        /\ errClass[t] = "mfa"
        /\ pass[t] = 1
        /\ authCalls[t] = 0
        /\ authRec[t] = NoAuth

\* C32: for every snapshot the coordinator can publish, an empty accounts
\* or categories list, the empty mapping stored for a missing cashflow and
\* accounts without optional values included, every sensor's
\* _handle_coordinator_update that has been called completed without
\* raising and wrote its state.
C32_HandlersNeverRaise ==
    \A name \in Range(Listeners) :
        Handled(name) =>
            /\ sensors[name].raised = "none"
            /\ sensors[name].written

\* C33: once the income (expense) sensor has handled a snapshot, its
\* categories attribute has exactly one key per category of the snapshot
\* whose group type is income (expense), and the key's value is the sum
\* (the negated sum) of the byCategory entries of that category, 0 when
\* there are none; every byCategory entry names a category of the list.
C33_CategoriesAttribute ==
    /\ Consistent(update_data.categories, update_data.cashflow)
    /\ \A kind \in {<<"Income", "income", 1>>, <<"Expense", "expense", -1>>} :
          Handled(kind[1]) =>
              LET by_category ==
                      Get(update_data.cashflow, "byCategory", << >>)
                  CategoryTotal(name) ==
                      Sum([i \in DOMAIN by_category |->
                          IF /\ by_category[i].groupBy.category.name = name
                             /\ by_category[i].groupBy.category.group.type
                                   = kind[2]
                          THEN by_category[i].summary.sum ELSE 0])
                  cats == sensors[kind[1]].attrs.categories
                  names == {update_data.categories[i].name :
                               i \in {j \in DOMAIN update_data.categories :
                                   update_data.categories[j].group.type
                                       = kind[2]}}
              IN  /\ DOMAIN cats = names
                  /\ \A name \in names :
                        cats[name] = kind[3] * CategoryTotal(name)

\* C34: async_setup forwards the sensor platforms only in the step in
\* which its first refresh returned a snapshot, so whenever the platforms
\* are set up coordinator.data is present; a first refresh that ends in
\* UpdateFailed or ConfigEntryAuthFailed leaves the setup failed for good
\* with no platform; and the first refresh is started when the initial
\* authentication returns, whatever it returned.
C34_PlatformsAfterFirstSnapshot ==
    /\ [](setup_state = "ready" => data.published)
    /\ [][/\ (setup_state' = "ready" /\ setup_state # "ready") =>
                /\ setup_state = "first_refresh"
                /\ result'[SetupTask] = "Snapshot"
          /\ (setup_state = "first_refresh"
                 /\ result'[SetupTask] \in {"UpdateFailed",
                                            "ConfigEntryAuthFailed"}) =>
                setup_state' = "failed"
          /\ setup_state = "failed" =>
                setup_state' = "failed" /\ ~data'.published
          /\ (setup_state = "authenticating"
                 /\ setup_state' # "authenticating") =>
                /\ setup_state' = "first_refresh"
                /\ result'[SetupTask] = "running"]_vars

\* the platforms were forwarded after a first refresh that followed a
\* failed initial authentication
C34_Witness ==
    /\ setup_state = "ready"
    /\ data.published
    /\ loginsBeforeRefresh = 1
    /\ api = 0

\* the call of task t has got past line 125: its body started with the
\* lock acquired
Acquired(t) == authRec[t].at # -1

\* C35 as stated: the lock is held only inside the block of lines 125-200,
\* every holder gives it up, and every caller waiting on the lock
\* eventually acquires it.
C35_WaiterAcquiresLock ==
    /\ [](\A t \in Tasks : auth_lock = t => pc[t] \in {"login", "save_session"})
    /\ \A t \in Tasks : (auth_lock = t) ~> (auth_lock # t)
    /\ \A t \in Tasks : (pc[t] = "auth_wait") ~> Acquired(t)

\* C35, amended: the lock is held only inside the block of lines 125-200,
\* so every exit path has released it; every holder gives it up; a caller
\* waiting on the lock eventually acquires it or is cancelled by the
\* timeout of its own cycle; and every cycle ends.
C35_LockAlwaysReleased ==
    /\ [](\A t \in Tasks : auth_lock = t => pc[t] \in {"login", "save_session"})
    /\ \A t \in Tasks : (auth_lock = t) ~> (auth_lock # t)
    /\ \A t \in Tasks :
          (pc[t] = "auth_wait") ~>
              \/ Acquired(t)
              \/ pc[t] = "idle" /\ result[t] = "UpdateFailed"
                                /\ cause[t] = "TimeoutError"
    /\ \A t \in Tasks : (result[t] = "running") ~> (result[t] # "running")

\* a caller that waited behind another call has acquired the lock after
\* that call returned, and has left through the rate-limit short-circuit
C35_Witness ==
    \E t \in Tasks :
        /\ authRec[t].behind # -1
        /\ Acquired(t)
        /\ authRec[t].login = "skipped" /\ authRec[t].ret = "False"
        /\ auth_lock = Free
        /\ \E u \in Tasks \ {t} : authRec[u].ret \in {"True", "False"}

\* no setup or unload of the entry is under way
Settled(entry_id) ==
    entry_state[entry_id] \notin {"setup_in_progress", "unload_in_progress"}

\* C36: after any sequence of setups and unloads the registry holds an
\* entry id exactly if the entry's last setup completed successfully and no
\* unload of it has succeeded since.
C36_RegisteredIffSetUp ==
    \A entry_id \in EntryIds :
        Settled(entry_id) =>
            (entry_id \in hass_data <=>
                 /\ history[entry_id].setup = "ok"
                 /\ ~history[entry_id].unloaded)

====
